---------------------------- MODULE Spec2Model ----------------------------
(***************************************************************************)
(* The flow engine of airetoolbackend: the trigger (app.run_agent), the    *)
(* sequencer (app.execute_flow_with_new_db), the step functions of the     *)
(* create flow (flows/create_agent.py) and of the edit flow                *)
(* (flows/edit_agent.py), the notifier (ws/socket_handler.SocketManager)   *)
(* and the store (utils/database.Database).                                *)
(*                                                                         *)
(* Every run is a thread of its own (threading.Thread + asyncio.run); the  *)
(* websocket handlers live on the server's event loop.  One transition of  *)
(* the model is one call that touches shared state (a store statement, a   *)
(* delivery to one websocket, a registry update) together with the local   *)
(* computation that follows it up to the next such call.                   *)
(***************************************************************************)
EXTENDS Integers, Sequences, FiniteSets, TLC

VARIABLES
    configs,             \* table configs: a function on a set of <<project_id, version>>
    mock_data,           \* table mock_data: a function on a set of <<project_id, resource_name>>
    messages,            \* table messages: the rows in insertion order
    active_connections,  \* SocketManager.active_connections
    ws,                  \* every WebSocket object: its life cycle, its project, what it received
    run,                 \* every run thread: its control state and its AgentState
    trace,               \* every run thread: the calls it has made so far (history)
    http,                \* the replies of the HTTP handlers, in order (history)
    llm                  \* the model service in this behaviour: "reliable" or "unreliable"

vars == <<configs, mock_data, messages, active_connections, ws, run, trace, http, llm>>

-----------------------------------------------------------------------------
(* Values *)

None == "None"
EmptyDict == <<>>
\* None in a field whose other values are dicts
NoneDict == [none |-> TRUE]

Runs == {"r1", "r2"}
Observers == {"w1", "w2"}

DEFAULT_PROJECT_ID == "default-project-123456"
uuid4(r) == "uuid-" \o r
ProjectIds == {"p1", DEFAULT_PROJECT_ID} \cup {uuid4(r) : r \in Runs}

\* The largest number of configuration versions the store holds for one project
\* before the first trigger.
MaxPrior == 1

Max(S) == CHOOSE x \in S : \A y \in S : y <= x

Get(d, k, default) == IF k \in DOMAIN d THEN d[k] ELSE default

\* dict | {k: v}
Put(d, k, v) == [x \in DOMAIN d \cup {k} |-> IF x = k THEN v ELSE d[x]]

Truthy(v) == v # NoneDict /\ v # EmptyDict

-----------------------------------------------------------------------------
(* models/agent_state.py *)

AgentState(user_input, mode, project_id) ==
    [ user_input           |-> user_input,
      project_id           |-> project_id,
      app_name             |-> None,
      use_case_summary     |-> None,
      entities             |-> <<>>,
      pages                |-> <<>>,
      page_configs         |-> EmptyDict,
      mock_data            |-> EmptyDict,
      current_config       |-> NoneDict,
      mode                 |-> mode,
      edit_target          |-> None,
      modification_details |-> NoneDict,
      updated_config       |-> NoneDict,
      updated_data         |-> NoneDict ]

-----------------------------------------------------------------------------
(* utils/database.py: the statements, as functions of the tables *)

Versions(cfgs, project_id) == {k[2] : k \in {x \in DOMAIN cfgs : x[1] = project_id}}

\* get_max_version with `result[0] or 1`
get_max_version_one(cfgs, project_id) ==
    IF Versions(cfgs, project_id) = {} THEN 1 ELSE Max(Versions(cfgs, project_id))

\* SELECT MAX(version) ... ; result[0] or 0
get_max_version(cfgs, project_id) ==
    IF Versions(cfgs, project_id) = {} THEN 0 ELSE Max(Versions(cfgs, project_id))

\* get_config that selects the version before the one asked for
get_config_previous(cfgs, project_id, version) ==
    IF <<project_id, version - 1>> \in DOMAIN cfgs THEN cfgs[<<project_id, version - 1>>]
    ELSE EmptyDict

\* SELECT config_json ... ; json.loads(result[0]) if result else {}
get_config(cfgs, project_id, version) ==
    IF <<project_id, version>> \in DOMAIN cfgs THEN cfgs[<<project_id, version>>] ELSE EmptyDict

\* get_all_mock_data without its WHERE project_id = ?
get_all_mock_data_any(md, project_id) ==
    [n \in {k[2] : k \in DOMAIN md} |-> md[CHOOSE k \in DOMAIN md : k[2] = n]]

\* SELECT resource_name, data_json ... ; {row[0]: json.loads(row[1]) for row in results}
get_all_mock_data(md, project_id) ==
    [n \in {k[2] : k \in {x \in DOMAIN md : x[1] = project_id}} |-> md[<<project_id, n>>]]

\* The row written by INSERT INTO configs: the table holds one row per
\* (project_id, version), the row written last.
InsertConfig(cfgs, project_id, version, config_json) ==
    Put(cfgs, <<project_id, version>>, config_json)

\* INSERT OR REPLACE INTO mock_data: one row per (project_id, resource_name).
InsertOrReplaceMockData(md, project_id, resource, data) ==
    Put(md, <<project_id, resource>>, data)

\* An INSERT that overwrites the project's latest entry
InsertMessage_replacing(msgs, project_id, step, msg_type, content) ==
    LET row == [project_id |-> project_id, step |-> step, type |-> msg_type, content |-> content]
    IN  IF msgs = <<>> THEN <<row>> ELSE [msgs EXCEPT ![Len(msgs)] = row]

\* INSERT INTO messages
InsertMessage(msgs, project_id, step, msg_type, content) ==
    Append(msgs, [project_id |-> project_id, step |-> step, type |-> msg_type, content |-> content])

-----------------------------------------------------------------------------
(* utils/openai_client.py: each capability as a function of the model's     *)
(* reply.  A reply is an API error, text that json.loads rejects, or text   *)
(* that parses to `value`.                                                  *)

ApiError == [kind |-> "api_error", value |-> NoneDict]
BadText == [kind |-> "text", value |-> NoneDict]
Json(v) == [kind |-> "json", value |-> v]

analyze_intent(reply, user_input) ==
    IF reply.kind = "json"
    THEN reply.value
    ELSE [app_name |-> "Task App", use_case_summary |-> user_input]

generate_use_cases(reply, use_case_summary) ==
    IF reply.kind = "json"
    THEN reply.value
    ELSE [ entities |-> << [name |-> "Task"] >>,
           pages    |-> << [title |-> "Dashboard", path |-> "/"],
                           [title |-> "Tasks", path |-> "/tasks"] >> ]

\* page_id = page.get("path", "").strip("/") or page.get("title", "").lower()...
PageId(page) ==
    IF Get(page, "path", "/") \in {"/", ""} THEN Get(page, "title", "") ELSE page.path

\* One entry per page that has an id, built from the state alone.
create_default_page_config(entities, pages) ==
    LET ps == IF pages = <<>>
              THEN << [title |-> "Dashboard", path |-> "/"],
                      [title |-> "Tasks", path |-> "/tasks"] >>
              ELSE pages
        ids == {PageId(ps[i]) : i \in DOMAIN ps} \ {""}
    IN  [pages |-> [id \in ids |-> [title |-> "default", entities |-> entities]]]

generate_page_configs(reply, entities, pages) ==
    IF reply.kind = "json"
    THEN IF Get(reply.value, "pages", EmptyDict) = EmptyDict
         THEN create_default_page_config(entities, pages)
         ELSE reply.value
    ELSE create_default_page_config(entities, pages)

generate_mock_data_ai(reply, entities) ==
    IF reply.kind = "json" THEN reply.value ELSE [Task |-> <<>>]

detect_edit_intent_ai(reply, user_input) ==
    IF reply.kind = "json"
    THEN reply.value
    ELSE [ edit_target          |-> "component",
           target_page          |-> "Dashboard",
           target_component     |-> "main",
           operation            |-> "update",
           modification_details |-> [description |-> user_input] ]

apply_edit_patch_ai(reply, current_config, edit_target, modification_details) ==
    IF reply.kind = "json" THEN reply.value ELSE current_config

regenerate_mock_data_ai(reply, updated_config, current_mock_data, modification_details) ==
    IF reply.kind = "json" THEN reply.value ELSE current_mock_data

(* The replies the model service gives in this model, per capability: a
   reliable service answers with JSON that has what the step reads; an
   unreliable one may also fail, answer with text that is no JSON, or with
   JSON that lacks a part. *)

Unreliable(replies) == IF llm = "unreliable" THEN replies ELSE {}

UserInputs == {"u1", "u2"}

Replies_analyze_intent(user_input) ==
    { Json([app_name |-> "Tracker", use_case_summary |-> user_input]) }
    \cup Unreliable({ Json([app_name |-> "Tracker"]), ApiError })

Replies_generate_use_cases(summary) ==
    { Json([ entities |-> << [name |-> summary] >>,
             pages    |-> << [title |-> "Home", path |-> "/"] >> ]) }

Replies_generate_page_configs(entities, pages) ==
    { Json([pages |-> [id \in {"Home"} |-> [title |-> "Home", entities |-> entities]]]) }
    \cup Unreliable({ Json([pages |-> EmptyDict]) })

Replies_generate_mock_data(entities) ==
    { Json([n \in {entities[i].name : i \in DOMAIN entities} |-> <<"rec">>]) }
    \cup Unreliable({ ApiError })

EditOps == {"add_field", "update"}

Replies_detect_edit_intent(user_input) ==
    { Json([ edit_target          |-> "field",
             target_page          |-> "Home",
             target_component     |-> "main",
             operation            |-> op,
             modification_details |-> [description |-> user_input] ]) : op \in EditOps }
    \cup Unreliable({ Json([operation |-> "update"]), BadText })

Replies_apply_edit_patch(current_config, modification_details) ==
    { Json([base |-> current_config,
            edit |-> Get(modification_details, "modification_details", NoneDict)]) }

Replies_regenerate_mock_data(current_mock_data) ==
    { Json([n \in {"Task", "Extra"} |-> <<"rec2">>]),
      Json(EmptyDict) }
    \cup Unreliable({ BadText })

-----------------------------------------------------------------------------
(* ws/socket_handler.py: the four message shapes *)

Len0(d, k) == IF k \in DOMAIN d THEN Cardinality(DOMAIN d[k]) ELSE 0

_format_ai_output(step, data) ==
    IF step = "analyze_user_intent"
    THEN [summary |-> <<"App", Get(data, "app_name", "Unknown")>>]
    ELSE IF step = "generate_use_cases"
    THEN [summary |-> <<"Generated", Len0(data, "entities"), Len0(data, "pages")>>]
    ELSE IF step = "generate_page_configs"
    THEN [summary |-> <<"Generated UI config", Len0(data, "pages")>>]
    ELSE IF step = "generate_mock_data"
    THEN [summary |-> <<"Generated records", Cardinality(DOMAIN data)>>]
    ELSE IF step = "detect_edit_type"
    THEN [summary |-> <<"Edit", Get(data, "operation", "Unknown"), Get(data, "edit_target", "Unknown")>>]
    ELSE IF step = "load_current_state"
    THEN [summary |-> <<"Loaded current app state">>]
    ELSE [summary |-> <<>>]

\* The message of send_status with the type of a state message
StatusMsg_as_state(step, message) ==
    [type |-> "state", step |-> step, data |-> message]

StatusMsg(step, message) ==
    [type |-> "status", step |-> step, data |-> message]

StateMsg(step, data) ==
    [type |-> "state", step |-> step, data |-> data, formatted |-> _format_ai_output(step, data)]

CompleteMsg(project_id, message, config, md) ==
    [type |-> "complete", step |-> None,
     data |-> [message |-> message, config |-> config, mockData |-> md,
               appUrl |-> <<"http://localhost:5174/?id=", project_id>>,
               previewApiUrl |-> <<"http://localhost:8000/project/preview/?id=", project_id>>]]

ErrorMsg(step, error) ==
    [type |-> "error", step |-> step, data |-> error]

-----------------------------------------------------------------------------
(* The run threads *)

NoIter == [obj |-> None, used |-> 0, pending |-> {}]

IdleRun ==
    [ status       |-> "idle",    \* idle, rejected, running, done, dead
      flow_type    |-> None,
      current_step |-> None,
      pc           |-> "idle",
      state        |-> NoneDict,
      exc          |-> None,      \* the exception being handled
      msg          |-> NoneDict,  \* send_message: the message
      it           |-> NoIter,    \* send_message: the iterator of its for loop
      ret          |-> None,      \* send_message: where its caller goes on
      handler      |-> None,      \* send_message: where an exception takes its caller
      version      |-> 0,         \* save_config / load_current_state: version
      todo         |-> {},        \* the resources the for loop over the datasets has left
      result_dict  |-> NoneDict ]

At(r, step, pc) ==
    /\ run[r].status = "running"
    /\ run[r].current_step = step
    /\ run[r].pc = pc

\* An event of a thread's history: its kind, then its argument (two events
\* are told apart by kind before their arguments are looked at)
Ev(ev, arg) == [ev |-> ev, arg |-> arg]

\* The calls of one kind in a thread's history
EventsOf(r, kind) == SelectSeq(trace[r], LAMBDA e : e.ev = kind)

\* The thread goes on as rr, having made the calls evs; nothing shared changes.
Local(r, rr, evs) ==
    /\ run' = [run EXCEPT ![r] = rr]
    /\ trace' = [trace EXCEPT ![r] = @ \o evs]
    /\ UNCHANGED <<configs, mock_data, messages, active_connections, ws, http, llm>>

\* An exception e reaches the handler h: "except" is the except clause of the
\* step, "seq_except" the one of execute_flow_with_new_db, "dead" none (the
\* exception leaves asyncio.run and the thread ends).
Raise(rr, e, h) ==
    [rr EXCEPT !.pc = h, !.exc = e, !.it = NoIter, !.msg = NoneDict, !.ret = None, !.handler = None,
               !.status = IF h = "dead" THEN "dead" ELSE @]

\* SocketManager.send_message up to its first delivery: the membership test
\* and the iterator over the project's set.
send_message(rr, message, ret, handler) ==
    LET project_id == rr.state.project_id IN
    IF project_id \in DOMAIN active_connections
    THEN [rr EXCEPT !.pc = "send", !.msg = message, !.ret = ret, !.handler = handler,
                    !.it = [obj     |-> active_connections[project_id].obj,
                            used    |-> Cardinality(active_connections[project_id].members),
                            pending |-> active_connections[project_id].members]]
    ELSE [rr EXCEPT !.pc = ret]

send_status(rr, step, message, ret, handler) ==
    send_message(rr, StatusMsg(step, message), ret, handler)

\* send_state that builds a status message
send_state_as_status(rr, step, data, ret, handler) ==
    send_message(rr, StatusMsg(step, data), ret, handler)

send_state(rr, step, data, ret, handler) ==
    send_message(rr, StateMsg(step, data), ret, handler)

send_complete(rr, message, config, md, ret, handler) ==
    send_message(rr, CompleteMsg(rr.state.project_id, message, config, md), ret, handler)

send_error(rr, step, error, ret, handler) ==
    send_message(rr, ErrorMsg(step, error), ret, handler)

\* The set object the iterator walks: the project's set while it is the one
\* the iterator was made from; a set that disconnect emptied and dropped
\* stays empty.
LiveSet(rr) ==
    LET project_id == rr.state.project_id IN
    IF /\ project_id \in DOMAIN active_connections
       /\ active_connections[project_id].obj = rr.it.obj
    THEN active_connections[project_id].members
    ELSE {}

\* One turn of `for connection in ...: await connection.send_json(message)`.
\* The set iterator raises RuntimeError when the set's size is not the one it
\* started with; a websocket whose client has gone either drops the message
\* or raises.
send_json(r) ==
    LET rr == run[r] IN
    /\ rr.status = "running"
    /\ rr.pc = "send"
    /\ IF Cardinality(LiveSet(rr)) # rr.it.used
       THEN /\ Local(r, Raise(rr, "RuntimeError", rr.handler), <<Ev("raise", "RuntimeError")>>)
       ELSE IF rr.it.pending \cap LiveSet(rr) = {}
       THEN /\ Local(r, [rr EXCEPT !.pc = rr.ret, !.it = NoIter, !.msg = NoneDict,
                                   !.ret = None, !.handler = None], <<>>)
       ELSE \E c \in rr.it.pending \cap LiveSet(rr) :
              \/ /\ ws[c].status = "open"
                 /\ ws' = [ws EXCEPT ![c].inbox = Append(@, rr.msg)]
                 /\ run' = [run EXCEPT ![r].it.pending = @ \ {c}]
                 /\ UNCHANGED <<configs, mock_data, messages, active_connections, trace, http, llm>>
              \/ /\ ws[c].status = "closed"
                 /\ Local(r, [rr EXCEPT !.it.pending = @ \ {c}], <<>>)
              \/ /\ ws[c].status = "closed"
                 /\ Local(r, Raise(rr, "WebSocketDisconnect", rr.handler),
                          <<Ev("raise", "WebSocketDisconnect")>>)

\* A store call of a step fails (the database is locked, the disk is full):
\* every store call of a step is inside the step's try.
DbSites == {"log", "save_config", "insert_config", "save_mock_data",
            "get_max_version", "get_config", "get_all_mock_data"}

\* A store failure that undoes the INSERT of save_config when it strikes in
\* the loop over the datasets
StoreError_rolling_back(r) ==
    /\ run[r].status = "running"
    /\ run[r].pc \in DbSites
    /\ run' = [run EXCEPT ![r] = Raise(run[r], "sqlite3.Error", "except")]
    /\ trace' = [trace EXCEPT ![r] = Append(@, Ev("raise", "sqlite3.Error"))]
    /\ configs' = IF run[r].pc = "save_mock_data"
                  THEN [k \in DOMAIN configs \ {<<run[r].state.project_id, run[r].version>>} |->
                            configs[k]]
                  ELSE configs
    /\ UNCHANGED <<mock_data, messages, active_connections, ws, http, llm>>

StoreError(r) ==
    /\ run[r].status = "running"
    /\ run[r].pc \in DbSites
    /\ Local(r, Raise(run[r], "sqlite3.Error", "except"), <<Ev("raise", "sqlite3.Error")>>)

\* db.save_message(project_id, step, "success", content), the last call of a step
save_message(r, step, content) ==
    /\ messages' = InsertMessage(messages, run[r].state.project_id, step, "success", content)
    /\ run' = [run EXCEPT ![r].pc = "ret"]
    /\ trace' = [trace EXCEPT ![r] = Append(@, Ev("db", <<"save_message", step>>))]
    /\ UNCHANGED <<configs, mock_data, active_connections, ws, http, llm>>

\* save_config without the + 1
save_config_read_same(r) ==
    Local(r, [run[r] EXCEPT !.version = get_max_version(configs, run[r].state.project_id),
                            !.pc = "insert_config"],
          <<Ev("db", <<"get_max_version", get_max_version(configs, run[r].state.project_id)>>)>>)

\* Database.save_config, first statement: version = get_max_version + 1
save_config_read(r) ==
    Local(r, [run[r] EXCEPT !.version = get_max_version(configs, run[r].state.project_id) + 1,
                            !.pc = "insert_config"],
          <<Ev("db", <<"get_max_version", get_max_version(configs, run[r].state.project_id)>>)>>)

\* save_config if it took the maximum again when it writes
save_config_write_fresh(r, config_json, todo) ==
    LET version == get_max_version(configs, run[r].state.project_id) + 1
    IN  /\ configs' = InsertConfig(configs, run[r].state.project_id, version, config_json)
        /\ run' = [run EXCEPT ![r].pc = IF todo = {} THEN "complete" ELSE "save_mock_data",
                              ![r].todo = todo]
        /\ trace' = [trace EXCEPT ![r] = Append(@, Ev("db", <<"insert_config", version, config_json>>))]
        /\ UNCHANGED <<mock_data, messages, active_connections, ws, http, llm>>

\* Database.save_config, second statement: INSERT and commit
save_config_write(r, config_json, todo) ==
    /\ configs' = InsertConfig(configs, run[r].state.project_id, run[r].version, config_json)
    /\ run' = [run EXCEPT ![r].pc = IF todo = {} THEN "complete" ELSE "save_mock_data",
                          ![r].todo = todo]
    /\ trace' = [trace EXCEPT ![r] = Append(@, Ev("db", <<"insert_config", run[r].version, config_json>>))]
    /\ UNCHANGED <<mock_data, messages, active_connections, ws, http, llm>>

\* A turn of the loop over the datasets that saves nothing
save_mock_data_skipping(r, d) ==
    \E resource \in run[r].todo :
        /\ run' = [run EXCEPT ![r].todo = @ \ {resource},
                              ![r].pc = IF run[r].todo = {resource} THEN "complete" ELSE @]
        /\ trace' = [trace EXCEPT ![r] = Append(@, Ev("db", <<"save_mock_data", resource>>))]
        /\ UNCHANGED <<configs, mock_data, messages, active_connections, ws, http, llm>>

\* A turn of the loop that adds the records to the ones the row holds
save_mock_data_merging(r, d) ==
    \E resource \in run[r].todo :
        LET key == <<run[r].state.project_id, resource>> IN
        /\ mock_data' = InsertOrReplaceMockData(mock_data, run[r].state.project_id, resource,
                                                IF key \in DOMAIN mock_data
                                                THEN mock_data[key] \o d[resource]
                                                ELSE d[resource])
        /\ run' = [run EXCEPT ![r].todo = @ \ {resource},
                              ![r].pc = IF run[r].todo = {resource} THEN "complete" ELSE @]
        /\ trace' = [trace EXCEPT ![r] = Append(@, Ev("db", <<"save_mock_data", resource>>))]
        /\ UNCHANGED <<configs, messages, active_connections, ws, http, llm>>

\* A turn of the loop that saves every dataset of d in one statement
save_mock_data_at_once(r, d) ==
    \E resource \in run[r].todo :
        /\ mock_data' = [x \in DOMAIN mock_data \cup {<<run[r].state.project_id, n>> : n \in DOMAIN d} |->
                            IF x[1] = run[r].state.project_id /\ x[2] \in DOMAIN d
                            THEN d[x[2]] ELSE mock_data[x]]
        /\ run' = [run EXCEPT ![r].todo = @ \ {resource},
                              ![r].pc = IF run[r].todo = {resource} THEN "complete" ELSE @]
        /\ trace' = [trace EXCEPT ![r] = Append(@, Ev("db", <<"save_mock_data", resource>>))]
        /\ UNCHANGED <<configs, messages, active_connections, ws, http, llm>>
\* A turn of the loop that also deletes the project's datasets d does not name
save_mock_data_pruning(r, d) ==
    \E resource \in run[r].todo :
        LET saved == InsertOrReplaceMockData(mock_data, run[r].state.project_id,
                                             resource, d[resource])
            kept  == {x \in DOMAIN saved : x[1] = run[r].state.project_id => x[2] \in DOMAIN d}
        IN
        /\ mock_data' = [x \in kept |-> saved[x]]
        /\ run' = [run EXCEPT ![r].todo = @ \ {resource},
                              ![r].pc = IF run[r].todo = {resource} THEN "complete" ELSE @]
        /\ trace' = [trace EXCEPT ![r] = Append(@, Ev("db", <<"save_mock_data", resource>>))]
        /\ UNCHANGED <<configs, messages, active_connections, ws, http, llm>>

\* One turn of `for resource, data in d.items(): await db.save_mock_data(...)`
save_mock_data(r, d) ==
    \E resource \in run[r].todo :
        /\ mock_data' = InsertOrReplaceMockData(mock_data, run[r].state.project_id,
                                                 resource, d[resource])
        /\ run' = [run EXCEPT ![r].todo = @ \ {resource},
                              ![r].pc = IF run[r].todo = {resource} THEN "complete" ELSE @]
        /\ trace' = [trace EXCEPT ![r] = Append(@, Ev("db", <<"save_mock_data", resource>>))]
        /\ UNCHANGED <<configs, messages, active_connections, ws, http, llm>>

-----------------------------------------------------------------------------
(* flows/create_agent.py *)

HasKeys(d, ks) == ks \subseteq DOMAIN d

analyze_user_intent(r) ==
    LET rr == run[r]
        st == rr.state
    IN
    \/ /\ At(r, "analyze_intent", "begin")
       /\ Local(r, send_status(rr, "analyze_user_intent", "Analyzing user intent...", "cap", "except"),
                <<Ev("send", StatusMsg("analyze_user_intent", "Analyzing user intent..."))>>)
    \/ /\ At(r, "analyze_intent", "cap")
       /\ \E reply \in Replies_analyze_intent(st.user_input) :
            LET result_dict == analyze_intent(reply, st.user_input) IN
            IF ~HasKeys(result_dict, {"app_name"})
            THEN Local(r, Raise(rr, "KeyError", "except"),
                       <<Ev("cap", "analyze_intent"), Ev("raise", "KeyError")>>)
            ELSE IF ~HasKeys(result_dict, {"use_case_summary"})
            THEN Local(r, Raise([rr EXCEPT !.state.app_name = result_dict.app_name],
                                "KeyError", "except"),
                       <<Ev("cap", "analyze_intent"), Ev("raise", "KeyError")>>)
            ELSE Local(r, [rr EXCEPT !.state.app_name = result_dict.app_name,
                                     !.state.use_case_summary = result_dict.use_case_summary,
                                     !.result_dict = result_dict,
                                     !.pc = "state"],
                       <<Ev("cap", "analyze_intent"), Ev("mutate", result_dict)>>)
    \/ /\ At(r, "analyze_intent", "state")
       /\ Local(r, send_state(rr, "analyze_user_intent", rr.result_dict, "log", "except"),
                <<Ev("send", StateMsg("analyze_user_intent", rr.result_dict))>>)
    \/ /\ At(r, "analyze_intent", "log")
       /\ save_message(r, "analyze_user_intent", rr.result_dict)
    \/ /\ At(r, "analyze_intent", "except")
       /\ Local(r, send_error(rr, "analyze_user_intent", rr.exc, "seq_except", "seq_except"),
                <<Ev("send", ErrorMsg("analyze_user_intent", rr.exc))>>)

generate_use_cases_step(r) ==
    LET rr == run[r]
        st == rr.state
    IN
    \/ /\ At(r, "generate_use_cases", "begin")
       /\ Local(r, send_status(rr, "generate_use_cases", "Generating use cases...", "cap", "except"),
                <<Ev("send", StatusMsg("generate_use_cases", "Generating use cases..."))>>)
    \/ /\ At(r, "generate_use_cases", "cap")
       /\ \E reply \in Replies_generate_use_cases(st.use_case_summary) :
            LET result_dict == generate_use_cases(reply, st.use_case_summary) IN
            IF ~HasKeys(result_dict, {"entities"})
            THEN Local(r, Raise(rr, "KeyError", "except"),
                       <<Ev("cap", "generate_use_cases"), Ev("raise", "KeyError")>>)
            ELSE IF ~HasKeys(result_dict, {"pages"})
            THEN Local(r, Raise([rr EXCEPT !.state.entities = result_dict.entities],
                                "KeyError", "except"),
                       <<Ev("cap", "generate_use_cases"), Ev("raise", "KeyError")>>)
            ELSE Local(r, [rr EXCEPT !.state.entities = result_dict.entities,
                                     !.state.pages = result_dict.pages,
                                     !.result_dict = result_dict,
                                     !.pc = "state"],
                       <<Ev("cap", "generate_use_cases"), Ev("mutate", result_dict)>>)
    \/ /\ At(r, "generate_use_cases", "state")
       /\ Local(r, send_state(rr, "generate_use_cases", rr.result_dict, "log", "except"),
                <<Ev("send", StateMsg("generate_use_cases", rr.result_dict))>>)
    \/ /\ At(r, "generate_use_cases", "log")
       /\ save_message(r, "generate_use_cases", rr.result_dict)
    \/ /\ At(r, "generate_use_cases", "except")
       /\ Local(r, send_error(rr, "generate_use_cases", rr.exc, "seq_except", "seq_except"),
                <<Ev("send", ErrorMsg("generate_use_cases", rr.exc))>>)

\* send_status is called before the try: an exception of it passes the
\* step's except clause by.
generate_page_configs_step(r) ==
    LET rr == run[r]
        st == rr.state
    IN
    \/ /\ At(r, "generate_page_configs", "begin")
       /\ Local(r, send_status(rr, "generate_page_configs", "Generating page configurations...",
                               "cap", "seq_except"),
                <<Ev("send", StatusMsg("generate_page_configs", "Generating page configurations..."))>>)
    \/ /\ At(r, "generate_page_configs", "cap")
       /\ \E reply \in Replies_generate_page_configs(st.entities, st.pages) :
            LET result_dict == generate_page_configs(reply, st.entities, st.pages) IN
            Local(r, [rr EXCEPT !.state.page_configs = result_dict,
                                !.result_dict = result_dict,
                                !.pc = "state"],
                  <<Ev("cap", "generate_page_configs"), Ev("mutate", result_dict)>>)
    \/ /\ At(r, "generate_page_configs", "state")
       /\ Local(r, send_state(rr, "generate_page_configs", rr.result_dict, "log", "except"),
                <<Ev("send", StateMsg("generate_page_configs", rr.result_dict))>>)
    \/ /\ At(r, "generate_page_configs", "log")
       /\ save_message(r, "generate_page_configs", rr.result_dict)
    \/ /\ At(r, "generate_page_configs", "except")
       /\ Local(r, send_error(rr, "generate_page_configs", rr.exc, "seq_except", "seq_except"),
                <<Ev("send", ErrorMsg("generate_page_configs", rr.exc))>>)

generate_mock_data_step(r) ==
    LET rr == run[r]
        st == rr.state
    IN
    \/ /\ At(r, "generate_mock_data", "begin")
       /\ Local(r, send_status(rr, "generate_mock_data", "Generating mock data...",
                               "cap", "seq_except"),
                <<Ev("send", StatusMsg("generate_mock_data", "Generating mock data..."))>>)
    \/ /\ At(r, "generate_mock_data", "cap")
       /\ \E reply \in Replies_generate_mock_data(st.entities) :
            LET result_dict == generate_mock_data_ai(reply, st.entities) IN
            Local(r, [rr EXCEPT !.state.mock_data = result_dict,
                                !.result_dict = result_dict,
                                !.pc = "state"],
                  <<Ev("cap", "generate_mock_data"), Ev("mutate", result_dict)>>)
    \/ /\ At(r, "generate_mock_data", "state")
       /\ Local(r, send_state(rr, "generate_mock_data", rr.result_dict, "log", "except"),
                <<Ev("send", StateMsg("generate_mock_data", rr.result_dict))>>)
    \/ /\ At(r, "generate_mock_data", "log")
       /\ save_message(r, "generate_mock_data", rr.result_dict)
    \/ /\ At(r, "generate_mock_data", "except")
       /\ Local(r, send_error(rr, "generate_mock_data", rr.exc, "seq_except", "seq_except"),
                <<Ev("send", ErrorMsg("generate_mock_data", rr.exc))>>)

write_files(r) ==
    LET rr == run[r]
        st == rr.state
    IN
    \/ /\ At(r, "write_files", "begin")
       /\ Local(r, [rr EXCEPT !.pc = "save_config"], <<>>)
    \/ /\ At(r, "write_files", "save_config")
       /\ save_config_read(r)
    \/ /\ At(r, "write_files", "insert_config")
       /\ save_config_write(r, st.page_configs, DOMAIN st.mock_data)
    \/ /\ At(r, "write_files", "save_mock_data")
       /\ save_mock_data(r, st.mock_data)
    \/ /\ At(r, "write_files", "complete")
       /\ Local(r, send_complete(rr, "App successfully generated", st.page_configs, st.mock_data,
                                 "log", "except"),
                <<Ev("send", CompleteMsg(st.project_id, "App successfully generated",
                                         st.page_configs, st.mock_data))>>)
    \/ /\ At(r, "write_files", "log")
       /\ save_message(r, "write_files", "Files written successfully")
    \/ /\ At(r, "write_files", "except")
       /\ Local(r, send_message(rr, ErrorMsg("write_files", rr.exc), "seq_except", "seq_except"),
                <<Ev("send", ErrorMsg("write_files", rr.exc))>>)

\* create_get_next with analyze_intent's entry pointing past generate_use_cases
create_get_next_skipping(current_step) ==
    CASE current_step = "analyze_intent"        -> "generate_page_configs"
      [] current_step = "generate_page_configs" -> "generate_mock_data"
      [] current_step = "generate_mock_data"    -> "write_files"
      [] OTHER                                  -> None

create_get_next(current_step) ==
    CASE current_step = "analyze_intent"        -> "generate_use_cases"
      [] current_step = "generate_use_cases"    -> "generate_page_configs"
      [] current_step = "generate_page_configs" -> "generate_mock_data"
      [] current_step = "generate_mock_data"    -> "write_files"
      [] OTHER                                  -> None

-----------------------------------------------------------------------------
(* flows/edit_agent.py *)

\* schema_changing_ops without its last member
schema_changing_ops_four ==
    {"add_field", "remove_field", "modify_field_type", "add_entity"}

schema_changing_ops ==
    {"add_field", "remove_field", "modify_field_type", "add_entity", "remove_entity"}

\* needs_data_regeneration with the membership test turned round
needs_data_regeneration_negated(modification_details) ==
    Get(modification_details, "operation", None) \notin schema_changing_ops

\* needs_data_regeneration that answers yes to every operation
needs_data_regeneration_always(modification_details) == TRUE

needs_data_regeneration(modification_details) ==
    Get(modification_details, "operation", None) \in schema_changing_ops

detect_edit_type(r) ==
    LET rr == run[r]
        st == rr.state
    IN
    \/ /\ At(r, "detect_edit_type", "begin")
       /\ Local(r, send_status(rr, "detect_edit_type", "Analyzing edit request...", "cap", "except"),
                <<Ev("send", StatusMsg("detect_edit_type", "Analyzing edit request..."))>>)
    \/ /\ At(r, "detect_edit_type", "cap")
       /\ \E reply \in Replies_detect_edit_intent(st.user_input) :
            LET result_dict == detect_edit_intent_ai(reply, st.user_input) IN
            IF ~HasKeys(result_dict, {"edit_target"})
            THEN Local(r, Raise(rr, "KeyError", "except"),
                       <<Ev("cap", "detect_edit_intent"), Ev("raise", "KeyError")>>)
            ELSE Local(r, [rr EXCEPT !.state.edit_target = result_dict.edit_target,
                                     !.state.modification_details = result_dict,
                                     !.result_dict = result_dict,
                                     !.pc = "state"],
                       <<Ev("cap", "detect_edit_intent"), Ev("mutate", result_dict)>>)
    \/ /\ At(r, "detect_edit_type", "state")
       /\ Local(r, send_state(rr, "detect_edit_type", rr.result_dict, "log", "except"),
                <<Ev("send", StateMsg("detect_edit_type", rr.result_dict))>>)
    \/ /\ At(r, "detect_edit_type", "log")
       /\ save_message(r, "detect_edit_type", rr.result_dict)
    \/ /\ At(r, "detect_edit_type", "except")
       /\ Local(r, send_error(rr, "detect_edit_type", rr.exc, "seq_except", "seq_except"),
                <<Ev("send", ErrorMsg("detect_edit_type", rr.exc))>>)

load_current_state(r) ==
    LET rr == run[r]
        st == rr.state
    IN
    \/ /\ At(r, "load_current_state", "begin")
       /\ Local(r, send_status(rr, "load_current_state", "Loading current configuration...",
                               "get_max_version", "except"),
                <<Ev("send", StatusMsg("load_current_state", "Loading current configuration..."))>>)
    \/ /\ At(r, "load_current_state", "get_max_version")
       /\ Local(r, [rr EXCEPT !.version = get_max_version(configs, st.project_id),
                              !.pc = "get_config"],
                <<Ev("db", <<"get_max_version">>)>>)
    \/ /\ At(r, "load_current_state", "get_config")
       /\ Local(r, [rr EXCEPT !.state.current_config = get_config(configs, st.project_id, rr.version),
                              !.pc = "get_all_mock_data"],
                <<Ev("db", <<"get_config", rr.version>>)>>)
    \/ /\ At(r, "load_current_state", "get_all_mock_data")
       /\ Local(r, [rr EXCEPT !.state.mock_data = get_all_mock_data(mock_data, st.project_id),
                              !.pc = "state"],
                <<Ev("db", <<"get_all_mock_data">>)>>)
    \/ /\ At(r, "load_current_state", "state")
       /\ Local(r, send_state(rr, "load_current_state",
                              [config |-> st.current_config, mockData |-> st.mock_data],
                              "ret", "except"),
                <<Ev("send", StateMsg("load_current_state",
                                      [config |-> st.current_config, mockData |-> st.mock_data]))>>)
    \/ /\ At(r, "load_current_state", "except")
       /\ Local(r, send_error(rr, "load_current_state", rr.exc, "seq_except", "seq_except"),
                <<Ev("send", ErrorMsg("load_current_state", rr.exc))>>)

apply_patch(r) ==
    LET rr == run[r]
        st == rr.state
    IN
    \/ /\ At(r, "apply_patch", "begin")
       /\ Local(r, send_status(rr, "apply_patch", "Applying requested changes...",
                               "cap", "seq_except"),
                <<Ev("send", StatusMsg("apply_patch", "Applying requested changes..."))>>)
    \/ /\ At(r, "apply_patch", "cap")
       /\ \E reply \in Replies_apply_edit_patch(st.current_config, st.modification_details) :
            LET result_dict == apply_edit_patch_ai(reply, st.current_config, st.edit_target,
                                                   st.modification_details) IN
            Local(r, [rr EXCEPT !.state.updated_config = result_dict,
                                !.result_dict = result_dict,
                                !.pc = "state"],
                  <<Ev("cap", "apply_edit_patch"), Ev("mutate", result_dict)>>)
    \/ /\ At(r, "apply_patch", "state")
       /\ Local(r, send_state(rr, "apply_patch", rr.result_dict, "ret", "except"),
                <<Ev("send", StateMsg("apply_patch", rr.result_dict))>>)
    \/ /\ At(r, "apply_patch", "except")
       /\ Local(r, send_error(rr, "apply_patch", rr.exc, "seq_except", "seq_except"),
                <<Ev("send", ErrorMsg("apply_patch", rr.exc))>>)

regenerate_affected_data(r) ==
    LET rr == run[r]
        st == rr.state
    IN
    \/ /\ At(r, "regenerate_affected_data", "begin")
       /\ IF ~needs_data_regeneration(st.modification_details)
          THEN Local(r, [rr EXCEPT !.pc = "ret"], <<>>)
          ELSE Local(r, send_status(rr, "regenerate_data", "Updating mock data for schema changes...",
                                    "cap", "seq_except"),
                     <<Ev("send", StatusMsg("regenerate_data",
                                            "Updating mock data for schema changes..."))>>)
    \/ /\ At(r, "regenerate_affected_data", "cap")
       /\ \E reply \in Replies_regenerate_mock_data(st.mock_data) :
            LET result_dict == regenerate_mock_data_ai(reply, st.updated_config, st.mock_data,
                                                       st.modification_details) IN
            Local(r, [rr EXCEPT !.state.updated_data = result_dict,
                                !.result_dict = result_dict,
                                !.pc = "state"],
                  <<Ev("cap", "regenerate_mock_data"), Ev("mutate", result_dict)>>)
    \/ /\ At(r, "regenerate_affected_data", "state")
       /\ Local(r, send_state(rr, "regenerate_data", rr.result_dict, "ret", "except"),
                <<Ev("send", StateMsg("regenerate_data", rr.result_dict))>>)
    \/ /\ At(r, "regenerate_affected_data", "except")
       /\ Local(r, send_error(rr, "regenerate_data", rr.exc, "seq_except", "seq_except"),
                <<Ev("send", ErrorMsg("regenerate_data", rr.exc))>>)

\* state.updated_data or state.mock_data
\* `state.updated_data` without `or state.mock_data`
ChosenData_updated(st) == st.updated_data

ChosenData(st) == IF Truthy(st.updated_data) THEN st.updated_data ELSE st.mock_data

save_updates(r) ==
    LET rr == run[r]
        st == rr.state
    IN
    \/ /\ At(r, "save_updates", "begin")
       /\ Local(r, [rr EXCEPT !.pc = "save_config"], <<>>)
    \/ /\ At(r, "save_updates", "save_config")
       /\ save_config_read(r)
    \/ /\ At(r, "save_updates", "insert_config")
       /\ save_config_write(r, st.updated_config,
                            IF Truthy(st.updated_data) THEN DOMAIN st.updated_data ELSE {})
    \/ /\ At(r, "save_updates", "save_mock_data")
       /\ save_mock_data(r, st.updated_data)
    \/ /\ At(r, "save_updates", "complete")
       /\ Local(r, send_complete(rr, "Updates successfully applied", st.updated_config,
                                 ChosenData(st), "log", "except"),
                <<Ev("send", CompleteMsg(st.project_id, "Updates successfully applied",
                                         st.updated_config, ChosenData(st)))>>)
    \/ /\ At(r, "save_updates", "log")
       /\ save_message(r, "save_updates", "Updates saved successfully")
    \/ /\ At(r, "save_updates", "except")
       /\ Local(r, send_error(rr, "save_updates", rr.exc, "seq_except", "seq_except"),
                <<Ev("send", ErrorMsg("save_updates", rr.exc))>>)

\* edit_get_next with apply_patch's entry pointing past the regeneration step
edit_get_next_skipping(current_step) ==
    CASE current_step = "detect_edit_type"         -> "load_current_state"
      [] current_step = "load_current_state"       -> "apply_patch"
      [] current_step = "apply_patch"              -> "save_updates"
      [] OTHER                                     -> None

\* edit_get_next whose last entry points back to the first step
edit_get_next_looping(current_step) ==
    CASE current_step = "detect_edit_type"         -> "load_current_state"
      [] current_step = "load_current_state"       -> "apply_patch"
      [] current_step = "apply_patch"              -> "regenerate_affected_data"
      [] current_step = "regenerate_affected_data" -> "save_updates"
      [] current_step = "save_updates"             -> "detect_edit_type"
      [] OTHER                                     -> None

edit_get_next(current_step) ==
    CASE current_step = "detect_edit_type"         -> "load_current_state"
      [] current_step = "load_current_state"       -> "apply_patch"
      [] current_step = "apply_patch"              -> "regenerate_affected_data"
      [] current_step = "regenerate_affected_data" -> "save_updates"
      [] OTHER                                     -> None

-----------------------------------------------------------------------------
(* app.py *)

Requests(r) ==
    [ project_id : {None, "", "p1"},
      mode       : {"create", "edit", "delete"},
      user_input : {IF r = "r1" THEN "u1" ELSE "u2"} ]

\* run_agent without the validation of the mode: any other mode runs as edit
run_agent_unvalidated(r, request) ==
    /\ run[r].status = "idle"
    /\ LET project_id == IF request.mode # "create" /\ request.project_id \in {None, ""}
                         THEN DEFAULT_PROJECT_ID
                         ELSE IF request.project_id \in {None, ""} THEN uuid4(r)
                         ELSE request.project_id
       IN
       /\ run' = [run EXCEPT ![r] =
                     [IdleRun EXCEPT !.status = "running",
                                     !.flow_type = IF request.mode = "create"
                                                   THEN "create" ELSE "edit",
                                     !.current_step = IF request.mode = "create"
                                                      THEN "analyze_intent"
                                                      ELSE "detect_edit_type",
                                     !.pc = "connect",
                                     !.state = AgentState(request.user_input, request.mode,
                                                          project_id)]]
       /\ http' = Append(http, [status |-> "started", project_id |-> project_id,
                                ws_channel |-> <<"agent-updates-", project_id>>])
    /\ UNCHANGED <<configs, mock_data, messages, active_connections, ws, trace, llm>>

\* run_agent without `state.project_id = DEFAULT_PROJECT_ID`
run_agent_stale_state(r, request) ==
    /\ run[r].status = "idle"
    /\ LET generated == IF request.project_id \in {None, ""} THEN uuid4(r)
                        ELSE request.project_id
           project_id == IF request.mode = "edit" /\ request.project_id \in {None, ""}
                         THEN DEFAULT_PROJECT_ID
                         ELSE generated
       IN
       IF request.mode \notin {"create", "edit"}
       THEN /\ run' = [run EXCEPT ![r].status = "rejected", ![r].pc = "rejected"]
            /\ http' = Append(http, [status |-> "error", project_id |-> None, ws_channel |-> None])
       ELSE /\ run' = [run EXCEPT ![r] =
                          [IdleRun EXCEPT !.status = "running",
                                          !.flow_type = request.mode,
                                          !.current_step = IF request.mode = "create"
                                                           THEN "analyze_intent"
                                                           ELSE "detect_edit_type",
                                          !.pc = "connect",
                                          !.state = AgentState(request.user_input, request.mode,
                                                               generated)]]
            /\ http' = Append(http, [status |-> "started", project_id |-> project_id,
                                     ws_channel |-> <<"agent-updates-", project_id>>])
    /\ UNCHANGED <<configs, mock_data, messages, active_connections, ws, trace, llm>>

\* POST /agent/run.  `request.project_id or str(uuid.uuid4())` takes an empty
\* identifier for an absent one.  AgentState(mode=...) validates the mode (a
\* Literal): any other mode ends the handler before the thread is made.
run_agent(r, request) ==
    /\ run[r].status = "idle"
    /\ LET project_id == IF request.mode = "edit" /\ request.project_id \in {None, ""}
                         THEN DEFAULT_PROJECT_ID
                         ELSE IF request.project_id \in {None, ""} THEN uuid4(r)
                         ELSE request.project_id
       IN
       IF request.mode \notin {"create", "edit"}
       THEN /\ run' = [run EXCEPT ![r].status = "rejected", ![r].pc = "rejected"]
            /\ http' = Append(http, [status |-> "error", project_id |-> None, ws_channel |-> None])
       ELSE /\ run' = [run EXCEPT ![r] =
                          [IdleRun EXCEPT !.status = "running",
                                          !.flow_type = request.mode,
                                          !.current_step = IF request.mode = "create"
                                                           THEN "analyze_intent"
                                                           ELSE "detect_edit_type",
                                          !.pc = "connect",
                                          !.state = AgentState(request.user_input, request.mode,
                                                               project_id)]]
            /\ http' = Append(http, [status |-> "started", project_id |-> project_id,
                                     ws_channel |-> <<"agent-updates-", project_id>>])
    /\ UNCHANGED <<configs, mock_data, messages, active_connections, ws, trace, llm>>

get_next_step_func(flow_type, current_step) ==
    IF flow_type = "create" THEN create_get_next(current_step) ELSE edit_get_next(current_step)

\* `while current_step: await flow[current_step](state)`
Loop(rr, current_step) ==
    IF current_step = None
    THEN [rr EXCEPT !.current_step = None, !.pc = "done", !.status = "done"]
    ELSE [rr EXCEPT !.current_step = current_step, !.pc = "begin"]

LoopEv(current_step) ==
    IF current_step = None THEN <<>> ELSE <<Ev("step", current_step)>>

\* execute_flow_with_new_db whose except clause re-raises without send_error
execute_flow_silent(r) ==
    LET rr == run[r] IN
    /\ rr.status = "running"
    /\ \/ /\ rr.pc = "connect"
          /\ Local(r, Loop(rr, rr.current_step), LoopEv(rr.current_step))
       \/ /\ rr.pc = "ret"
          /\ Local(r, Loop(rr, get_next_step_func(rr.flow_type, rr.current_step)),
                   LoopEv(get_next_step_func(rr.flow_type, rr.current_step)))
       \/ /\ rr.pc \in {"seq_except", "reraise"}
          /\ Local(r, Raise(rr, rr.exc, "dead"), <<>>)

execute_flow_with_new_db(r) ==
    LET rr == run[r] IN
    /\ rr.status = "running"
    /\ \/ /\ rr.pc = "connect"
          /\ Local(r, Loop(rr, rr.current_step), LoopEv(rr.current_step))
       \/ /\ rr.pc = "ret"
          /\ Local(r, Loop(rr, get_next_step_func(rr.flow_type, rr.current_step)),
                   LoopEv(get_next_step_func(rr.flow_type, rr.current_step)))
       \/ /\ rr.pc = "seq_except"
          /\ Local(r, send_error(rr, "execute_flow", <<"Error executing flow: ", rr.exc>>,
                                 "reraise", "dead"),
                   <<Ev("send", ErrorMsg("execute_flow", <<"Error executing flow: ", rr.exc>>))>>)
       \/ /\ rr.pc = "reraise"
          /\ Local(r, Raise(rr, rr.exc, "dead"), <<>>)

\* aiosqlite.connect fails (the file cannot be opened): this is outside the try.
ConnectError(r) ==
    /\ run[r].status = "running"
    /\ run[r].pc = "connect"
    /\ Local(r, Raise(run[r], "sqlite3.OperationalError", "dead"),
             <<Ev("raise", "sqlite3.OperationalError")>>)

\* One step of a run thread short of its websocket sends, raising nothing but
\* what the code itself raises.
Step(r) ==
    \/ execute_flow_with_new_db(r)
    \/ analyze_user_intent(r)
    \/ generate_use_cases_step(r)
    \/ generate_page_configs_step(r)
    \/ generate_mock_data_step(r)
    \/ write_files(r)
    \/ detect_edit_type(r)
    \/ load_current_state(r)
    \/ apply_patch(r)
    \/ regenerate_affected_data(r)
    \/ save_updates(r)

-----------------------------------------------------------------------------
(* The websocket endpoint: SocketManager.connect / disconnect *)

\* Who subscribes to what: w1 to the project of the run, w2 to another one.
Subscriptions == {<<"w1", "p1">>, <<"w2", "p2">>}

NewSocket == [status |-> "new", project_id |-> None, inbox |-> <<>>]

\* connect that hands the newcomer what a run has published so far
connect_replaying(w, project_id) ==
    /\ ws[w].status = "new"
    /\ \E r \in Runs :
          ws' = [ws EXCEPT ![w].status = "open", ![w].project_id = project_id,
                           ![w].inbox = [i \in 1..Len(EventsOf(r, "send")) |->
                                            EventsOf(r, "send")[i].arg]]
    /\ active_connections' =
          IF project_id \in DOMAIN active_connections
          THEN [active_connections EXCEPT ![project_id].members = @ \cup {w}]
          ELSE Put(active_connections, project_id, [obj |-> w, members |-> {w}])
    /\ UNCHANGED <<configs, mock_data, messages, run, trace, http, llm>>

\* websocket_endpoint up to its first receive_text
connect(w, project_id) ==
    /\ ws[w].status = "new"
    /\ ws' = [ws EXCEPT ![w].status = "open", ![w].project_id = project_id]
    /\ active_connections' =
          IF project_id \in DOMAIN active_connections
          THEN [active_connections EXCEPT ![project_id].members = @ \cup {w}]
          ELSE Put(active_connections, project_id, [obj |-> w, members |-> {w}])
    /\ UNCHANGED <<configs, mock_data, messages, run, trace, http, llm>>

\* The client goes away, and what it had received with it; the handler has
\* not run yet.
client_close(w) ==
    /\ ws[w].status = "open"
    /\ ws' = [ws EXCEPT ![w].status = "closed", ![w].inbox = <<>>]
    /\ UNCHANGED <<configs, mock_data, messages, active_connections, run, trace, http, llm>>

\* disconnect without `del self.active_connections[project_id]`
disconnect_keeping_entry(w) ==
    /\ ws[w].status = "closed"
    /\ ws' = [ws EXCEPT ![w].status = "gone"]
    /\ active_connections' =
          [active_connections EXCEPT ![ws[w].project_id].members = @ \ {w}]
    /\ UNCHANGED <<configs, mock_data, messages, run, trace, http, llm>>

\* receive_text raises; the handler calls SocketManager.disconnect
disconnect(w) ==
    /\ ws[w].status = "closed"
    /\ ws' = [ws EXCEPT ![w].status = "gone"]
    /\ LET project_id == ws[w].project_id
           left == active_connections[project_id].members \ {w}
       IN  active_connections' =
             IF left = {}
             THEN [p \in DOMAIN active_connections \ {project_id} |-> active_connections[p]]
             ELSE [active_connections EXCEPT ![project_id].members = left]
    /\ UNCHANGED <<configs, mock_data, messages, run, trace, http, llm>>

-----------------------------------------------------------------------------
(* app.py: the query path *)

\* A thread serving GET /project/{project_id}, between two requests
Querier == [IdleRun EXCEPT !.status = "query"]

\* The locals of get_project
QueryLocals(project_id) == [project_id |-> project_id, config |-> NoneDict]

\* GET /project/{project_id}: three reads, each a statement of its own, and
\* the response; any exception becomes HTTPException(500).
get_project(r, project_id) ==
    LET rr == run[r] IN
    /\ rr.status = "query"
    /\ \/ /\ rr.pc = "idle"
          /\ Local(r, [rr EXCEPT !.pc = "get_max_version", !.state = QueryLocals(project_id),
                                 !.version = 0, !.result_dict = NoneDict],
                   <<>>)
       \/ /\ rr.pc = "get_max_version"
          /\ project_id = rr.state.project_id
          /\ Local(r, [rr EXCEPT !.version = get_max_version(configs, project_id),
                                 !.pc = "get_config"],
                   <<>>)
       \/ /\ rr.pc = "get_config"
          /\ project_id = rr.state.project_id
          /\ Local(r, [rr EXCEPT !.state.config = get_config(configs, project_id, rr.version),
                                 !.pc = "get_all_mock_data"],
                   <<>>)
       \/ /\ rr.pc = "get_all_mock_data"
          /\ project_id = rr.state.project_id
          /\ Local(r, [rr EXCEPT !.pc = "idle",
                                 !.result_dict =
                                     [project_id |-> project_id,
                                      appConfig  |-> rr.state.config,
                                      mockData   |-> get_all_mock_data(mock_data, project_id)]],
                   <<>>)
       \/ /\ rr.pc \in {"get_max_version", "get_config", "get_all_mock_data"}
          /\ project_id = rr.state.project_id
          /\ Local(r, [rr EXCEPT !.pc = "idle",
                                 !.result_dict =
                                     [status_code |-> 500,
                                      detail |-> <<"Failed to retrieve project: ",
                                                   "sqlite3.Error">>]],
                   <<>>)

-----------------------------------------------------------------------------
(* Specifications *)

\* The store after k earlier runs on project p1.
PriorConfigs(k) == [x \in {<<"p1", v>> : v \in 1..k} |-> [pages |-> <<"v", x[2]>>]]

PriorMockData(k) ==
    IF k = 0 THEN <<>> ELSE [x \in {<<"p1", "Task">>, <<"p1", "Note">>} |-> <<"rec0">>]

Init ==
    /\ \E k \in 0..MaxPrior :
         /\ configs = PriorConfigs(k)
         /\ mock_data = PriorMockData(k)
    /\ messages = <<>>
    /\ active_connections = <<>>
    /\ ws = [w \in Observers |-> NewSocket]
    /\ run = [r \in Runs |-> IdleRun]
    /\ trace = [r \in Runs |-> <<>>]
    /\ http = <<>>
    /\ llm = "unreliable"

\* One run, its observers, and every failure of the store.
Next ==
    \/ \E request \in Requests("r1") : run_agent("r1", request)
    \/ Step("r1")
    \/ send_json("r1")
    \/ StoreError("r1")
    \/ ConnectError("r1")
    \/ \E s \in Subscriptions : connect(s[1], s[2])
    \/ \E w \in Observers : client_close(w)
    \/ \E w \in Observers : disconnect(w)

Spec == Init /\ [][Next]_vars

\* The run thread is scheduled: a statement it can execute, it does execute
\* (every await returns, with a value or an exception).
SpecLive == Spec /\ WF_vars(Step("r1") \/ send_json("r1"))

(* The store alone: one caller of Database.save_config, one call after the
   other, no run. *)

\* How many calls the caller makes
MaxSaves == 3

Artifacts == {[pages |-> "a"], [pages |-> "b"], EmptyDict}

Caller(project_id) ==
    [IdleRun EXCEPT !.status = "caller", !.state = AgentState("none", "create", project_id)]

Calls(r) == [i \in 1..Len(EventsOf(r, "call")) |-> EventsOf(r, "call")[i].arg]

\* await db.save_config(project_id, config_json), from its call to its return
save_config(r, config_json) ==
    /\ run[r].status = "caller"
    /\ \/ /\ run[r].pc = "idle"
          /\ Len(Calls(r)) < MaxSaves
          /\ Local(r, [run[r] EXCEPT !.pc = "save_config", !.result_dict = config_json],
                   <<Ev("call", config_json)>>)
       \/ /\ run[r].pc = "save_config"
          /\ config_json = run[r].result_dict
          /\ save_config_read(r)
       \/ /\ run[r].pc = "insert_config"
          /\ config_json = run[r].result_dict
          /\ save_config_write(r, config_json, {})
       \/ /\ run[r].pc = "complete"
          /\ config_json = run[r].result_dict
          /\ Local(r, [run[r] EXCEPT !.pc = "idle"], <<>>)

InitStore ==
    /\ configs \in {<<>>, [x \in {<<"p2", 1>>} |-> [pages |-> "other"]]}
    /\ mock_data = <<>>
    /\ messages = <<>>
    /\ active_connections = <<>>
    /\ ws = [w \in Observers |-> NewSocket]
    /\ run = [r \in Runs |-> IF r = "r1" THEN Caller("p1") ELSE IdleRun]
    /\ trace = [r \in Runs |-> <<>>]
    /\ http = <<>>
    /\ llm = "reliable"

NextStore == \E config_json \in Artifacts : save_config("r1", config_json)

SpecStore == InitStore /\ [][NextStore]_vars

(* The store under two threads that call Database.save_config for the same
   project, each one call after the other, interleaved in any way. *)

InitStoreRace ==
    /\ \E k \in 0..MaxPrior :
         /\ configs = PriorConfigs(k)
         /\ mock_data = PriorMockData(k)
    /\ messages = <<>>
    /\ active_connections = <<>>
    /\ ws = [w \in Observers |-> NewSocket]
    /\ run = [r \in Runs |-> Caller("p1")]
    /\ trace = [r \in Runs |-> <<>>]
    /\ http = <<>>
    /\ llm = "reliable"

\* Each thread saves an artifact of its own.
ArtifactOf(r) == [pages |-> r]

NextStoreRace == \E r \in Runs : save_config(r, ArtifactOf(r))

SpecStoreRace == InitStoreRace /\ [][NextStoreRace]_vars

(* One run on project p1 in front of two observers of p1 who come and go; the
   model service is reliable and the store does not fail. *)

InitFanout ==
    /\ \E k \in 0..MaxPrior :
         /\ configs = PriorConfigs(k)
         /\ mock_data = PriorMockData(k)
    /\ messages = <<>>
    /\ active_connections = <<>>
    /\ ws = [w \in Observers |-> NewSocket]
    /\ run = [r \in Runs |-> IdleRun]
    /\ trace = [r \in Runs |-> <<>>]
    /\ http = <<>>
    /\ llm = "reliable"

FanoutRequests == {q \in Requests("r1") : q.project_id = "p1" /\ q.mode \in {"create", "edit"}}

NextFanout ==
    \/ \E request \in FanoutRequests : run_agent("r1", request)
    \/ Step("r1")
    \/ send_json("r1")
    \/ \E w \in Observers : connect(w, "p1")
    \/ \E w \in Observers : client_close(w)
    \/ \E w \in Observers : disconnect(w)

SpecFanout == InitFanout /\ [][NextFanout]_vars

(* The registry under observers of two projects who come and go while a run
   publishes for one of them; the store is empty and does not fail. *)

RegistryIds == {"p1", "p2"}

InitRegistry ==
    /\ configs = <<>>
    /\ mock_data = <<>>
    /\ messages = <<>>
    /\ active_connections = <<>>
    /\ ws = [w \in Observers |-> NewSocket]
    /\ run = [r \in Runs |-> IdleRun]
    /\ trace = [r \in Runs |-> <<>>]
    /\ http = <<>>
    /\ llm = "reliable"

NextRegistry ==
    \/ \E request \in FanoutRequests : run_agent("r1", request)
    \/ Step("r1")
    \/ send_json("r1")
    \/ \E w \in Observers : \E project_id \in RegistryIds : connect(w, project_id)
    \/ \E w \in Observers : client_close(w)
    \/ \E w \in Observers : disconnect(w)

SpecRegistry == InitRegistry /\ [][NextRegistry]_vars

-----------------------------------------------------------------------------
(* What a run has done so far, read off its history *)

\* The steps the sequencer has invoked, in order
Visited(r) == [i \in 1..Len(EventsOf(r, "step")) |-> EventsOf(r, "step")[i].arg]

\* The messages the run has handed to send_message, in order
Sent(r) == [i \in 1..Len(EventsOf(r, "send")) |-> EventsOf(r, "send")[i].arg]

\* Where in the history the k-th step was invoked, and where it ended
StepAt(r, k) ==
    SelectSeq([i \in 1..Len(trace[r]) |-> i], LAMBDA i : trace[r][i].ev = "step")[k]

StepEnd(r, k) ==
    IF k < Len(Visited(r)) THEN StepAt(r, k + 1) - 1 ELSE Len(trace[r])

\* The calls the k-th step made: notifications, capability calls, state
\* mutations, store calls
WorkOf(r, k) ==
    {i \in StepAt(r, k) + 1 .. StepEnd(r, k) : trace[r][i].ev \in {"send", "cap", "mutate", "db"}}

IsPrefix(s, t) == Len(s) <= Len(t) /\ \A i \in 1..Len(s) : s[i] = t[i]

Started(r) == run[r].status \in {"running", "done", "dead"}

-----------------------------------------------------------------------------
(* Claims *)

CreateOrder ==
    <<"analyze_intent", "generate_use_cases", "generate_page_configs",
      "generate_mock_data", "write_files">>

EditOrder ==
    <<"detect_edit_type", "load_current_state", "apply_patch",
      "regenerate_affected_data", "save_updates">>

OrderOf(flow_type) == IF flow_type = "create" THEN CreateOrder ELSE EditOrder

\* C1: at every moment the steps a run has invoked are a prefix of its kind's
\* table order; a run that ended without an exception has invoked exactly the
\* five steps of the table, each once and in order, and every one of them did
\* some work, except regenerate_affected_data when no regeneration is needed,
\* which did none.
C1_TableOrder ==
    \A r \in Runs :
        /\ Started(r) => IsPrefix(Visited(r), OrderOf(run[r].flow_type))
        /\ run[r].status = "done" =>
             /\ Visited(r) = OrderOf(run[r].flow_type)
             /\ \A k \in 1..Len(Visited(r)) :
                  (WorkOf(r, k) = {}) <=>
                     /\ Visited(r)[k] = "regenerate_affected_data"
                     /\ ~needs_data_regeneration(run[r].state.modification_details)

\* An edit run has ended without an exception and skipped the regeneration.
C1_Witness ==
    \E r \in Runs :
        /\ run[r].status = "done"
        /\ run[r].flow_type = "edit"
        /\ ~needs_data_regeneration(run[r].state.modification_details)
        /\ Len(Visited(r)) = 5

\* The step names the notifications carry
LabelOf(step) ==
    CASE step = "analyze_intent"           -> "analyze_user_intent"
      [] step = "regenerate_affected_data" -> "regenerate_data"
      [] OTHER                             -> step

\* The places in the history from lo to hi where a message of the type was
\* handed to send_message
SendsIn(r, lo, hi, type) ==
    {i \in lo..hi : trace[r][i].ev = "send" /\ trace[r][i].arg.type = type}

Errors(r) == SelectSeq(Sent(r), LAMBDA m : m.type = "error")

\* A run that a raising step has ended
StepRaised(r) == run[r].status = "dead" /\ Len(Visited(r)) >= 1

LastStep(r) == Visited(r)[Len(Visited(r))]

LastStepAt(r) == StepAt(r, Len(Visited(r)))

StatusOutsideTry ==
    {"generate_page_configs", "generate_mock_data", "apply_patch", "regenerate_affected_data"}

\* C2 as stated: a step that raises produces exactly one error notification
\* and no state notification for that step, and the run halts.
C2_ExactlyOneError ==
    \A r \in Runs :
        StepRaised(r) =>
            /\ Len(Errors(r)) = 1
            /\ SendsIn(r, LastStepAt(r), Len(trace[r]), "state") = {}

\* C2, amended: a run that a raising step has ended has published one or two
\* error notifications: the last one by execute_flow_with_new_db (labelled
\* execute_flow), and before it one labelled with the step, unless the
\* exception came from a status notification sent outside the step's try, when
\* there is none.  The step has published at most one state notification, and
\* when it has, its error notifications come after it.  The run has halted:
\* the step that raised is the last one invoked, no step was invoked twice, and
\* nothing but error notifications was published after the first of them.
C2_ErrorsThenHalt ==
    \A r \in Runs :
        StepRaised(r) =>
            LET errs == Errors(r)
                errAt == SendsIn(r, LastStepAt(r), Len(trace[r]), "error")
                stateAt == SendsIn(r, LastStepAt(r), Len(trace[r]), "state")
                sendAt == {i \in LastStepAt(r)..Len(trace[r]) : trace[r][i].ev = "send"}
            IN  /\ Len(errs) \in {1, 2}
                /\ errs[Len(errs)].step = "execute_flow"
                /\ Len(errs) = 2 => errs[1].step = LabelOf(LastStep(r))
                /\ Len(errs) = 1 =>
                     /\ LastStep(r) \in StatusOutsideTry
                     /\ Cardinality(sendAt) = 2
                     /\ \E i \in sendAt : trace[r][i].arg.type = "status"
                /\ Cardinality(errAt) = Len(errs)
                /\ Cardinality(stateAt) <= 1
                /\ \A i \in stateAt, j \in errAt : i < j
                /\ \A i \in sendAt, j \in errAt : i > j => i \in errAt
                /\ IsPrefix(Visited(r), OrderOf(run[r].flow_type))
                /\ \A i \in LastStepAt(r) + 1 .. Len(trace[r]) : trace[r][i].ev # "step"

\* The log append of a step failed after the step's state notification: the
\* run has ended with a state notification and two error notifications.
C2_Witness ==
    \E r \in Runs :
        /\ StepRaised(r)
        /\ Len(Errors(r)) = 2
        /\ SendsIn(r, LastStepAt(r), Len(trace[r]), "state") # {}
        /\ run[r].exc = "sqlite3.Error"

\* The versions the run's INSERTs into configs carried, in order
Inserted(r) ==
    LET ins == SelectSeq(EventsOf(r, "db"), LAMBDA e : e.arg[1] = "insert_config")
    IN  [i \in 1..Len(ins) |-> ins[i].arg[2]]

\* C3: after N calls of save_config made one after the other for one project,
\* the k-th call has written version k, the project's versions are 1..N,
\* get_max_version returns N and get_config(k) returns the k-th artifact.
C3_SequentialSaves ==
    \A r \in Runs :
        (run[r].status = "caller" /\ run[r].pc = "idle") =>
            LET N == Len(Calls(r))
                project_id == run[r].state.project_id
            IN  /\ Inserted(r) = [k \in 1..N |-> k]
                /\ Versions(configs, project_id) = 1..N
                /\ get_max_version(configs, project_id) = N
                /\ \A k \in 1..N : get_config(configs, project_id, k) = Calls(r)[k]

\* Three calls have returned, the first two with different artifacts.
C3_Witness ==
    \E r \in Runs :
        /\ run[r].status = "caller"
        /\ run[r].pc = "idle"
        /\ Len(Calls(r)) >= 3
        /\ Calls(r)[1] # Calls(r)[2]

\* What the calls of save_config by thread r read as the maximum, and what
\* they wrote
ReadMax(r) ==
    LET rd == SelectSeq(EventsOf(r, "db"),
                        LAMBDA e : e.arg[1] = "get_max_version" /\ Len(e.arg) = 2)
    IN  [i \in 1..Len(rd) |-> rd[i].arg[2]]

Written(r) ==
    LET ins == SelectSeq(EventsOf(r, "db"), LAMBDA e : e.arg[1] = "insert_config")
    IN  [i \in 1..Len(ins) |-> ins[i].arg[3]]

Last(seq) == seq[Len(seq)]

\* Thread r makes the INSERT of save_config in this step
Inserts(r) == Len(Inserted(r)') = Len(Inserted(r)) + 1

\* The latest calls of r and b for one project both read the maximum k; b has
\* written, r is about to
Raced(r, b) ==
    /\ r # b
    /\ run[r].pc = "insert_config"
    /\ run[b].pc \notin {"save_config", "insert_config"}
    /\ run[r].state.project_id = run[b].state.project_id
    /\ ReadMax(b) # <<>>
    /\ Last(ReadMax(r)) = Last(ReadMax(b))

SubscribedThroughout(w, r) ==
    /\ ws[w].status = "open"
    /\ ws[w].project_id = run[r].state.project_id
    /\ Sent(r) # <<>>
    /\ ws[w].inbox # <<>>
    /\ ws[w].inbox[1].type = Sent(r)[1].type
    /\ ws[w].inbox[1].step = Sent(r)[1].step

SuccessfulCreate(r) == run[r].status = "done" /\ run[r].flow_type = "create"

\* The inbox holds a status and then a state notification for each of the
\* first four create steps, labelled by label, and then one completion event
\* with the run's final configuration and datasets.
CreateNotifications(inbox, st, label(_)) ==
    /\ Len(inbox) = 9
    /\ \A i \in 1..4 :
          /\ inbox[2 * i - 1].type = "status"
          /\ inbox[2 * i - 1].step = label(CreateOrder[i])
          /\ inbox[2 * i].type = "state"
          /\ inbox[2 * i].step = label(CreateOrder[i])
    /\ inbox[9].type = "complete"
    /\ inbox[9].data.config = st.page_configs
    /\ inbox[9].data.mockData = st.mock_data

StepName(step) == step

\* C5 as stated: the notifications an observer subscribed for the whole of a
\* successful create run receives are labelled analyze_intent,
\* generate_use_cases, generate_page_configs and generate_mock_data.
C5_LabelledByStepName ==
    \A r \in Runs : \A w \in Observers :
        (SuccessfulCreate(r) /\ SubscribedThroughout(w, r)) =>
            CreateNotifications(ws[w].inbox, run[r].state, StepName)

\* C5, amended: an observer subscribed for the whole of a successful create
\* run receives, in order, a status and then a state notification for each of
\* the first four steps, labelled analyze_user_intent, generate_use_cases,
\* generate_page_configs and generate_mock_data, then one completion event
\* carrying the final configuration and the datasets, and nothing else.
C5_CreateNotifications ==
    \A r \in Runs : \A w \in Observers :
        (SuccessfulCreate(r) /\ SubscribedThroughout(w, r)) =>
            /\ CreateNotifications(ws[w].inbox, run[r].state, LabelOf)
            /\ ws[w].inbox = Sent(r)

\* A create run has ended without an exception in front of an observer who
\* has received its first notification and its completion event.
C5_Witness ==
    \E r \in Runs : \E w \in Observers :
        /\ SuccessfulCreate(r)
        /\ SubscribedThroughout(w, r)
        /\ ws[w].inbox[Len(ws[w].inbox)].type = "complete"
        /\ ws[w].inbox[Len(ws[w].inbox)].data.mockData # EmptyDict

\* An edit run that has ended without an exception, and its detected operation
SuccessfulEdit(r) == run[r].status = "done" /\ run[r].flow_type = "edit"

Operation(r) == Get(run[r].state.modification_details, "operation", None)

\* Where in the run's history regenerate_affected_data ran
RegenerateSpan(r) == StepAt(r, 4)..StepEnd(r, 4)

\* The completion event of the run (a successful run has published one)
Completion(r) == SelectSeq(Sent(r), LAMBDA m : m.type = "complete")[1]

\* The datasets the store holds for the project
Persisted(project_id) == get_all_mock_data(mock_data, project_id)

\* C6: in a successful edit run whose operation is schema-changing,
\* regenerate_affected_data has published a state notification (before the
\* completion event of save_updates, the step after it), the completion event
\* carries the regenerated datasets, and each of them is in the store.
C6_RegeneratedDataCompleted ==
    \A r \in Runs :
        (SuccessfulEdit(r) /\ Operation(r) \in schema_changing_ops) =>
            LET regenerated == run[r].state.updated_data
            IN  /\ \E i \in RegenerateSpan(r) :
                       /\ trace[r][i].ev = "send"
                       /\ trace[r][i].arg.type = "state"
                /\ Completion(r).data.mockData = regenerated
                /\ \A name \in DOMAIN regenerated :
                       /\ name \in DOMAIN Persisted(run[r].state.project_id)
                       /\ Persisted(run[r].state.project_id)[name] = regenerated[name]

\* What load_current_state loaded, as its state notification showed it
Loaded(r) ==
    SelectSeq(Sent(r), LAMBDA m : m.type = "state" /\ m.step = "load_current_state")[1].data.mockData

\* The store calls of the run that wrote a dataset
DatasetWrites(r) == SelectSeq(EventsOf(r, "db"), LAMBDA e : e.arg[1] = "save_mock_data")

\* C7: in a successful edit run whose operation is not schema-changing,
\* regenerate_affected_data has published nothing, the completion event
\* carries exactly the datasets load_current_state loaded, and the run has
\* written no dataset (the store's datasets are the ones it started with).
C7_NoRegeneration ==
    \A r \in Runs :
        (SuccessfulEdit(r) /\ Operation(r) \notin schema_changing_ops) =>
            /\ \A i \in RegenerateSpan(r) : trace[r][i].ev # "send"
            /\ \A i \in 1..Len(Sent(r)) : Sent(r)[i].step # "regenerate_data"
            /\ Completion(r).data.mockData = Loaded(r)
            /\ DatasetWrites(r) = <<>>
            /\ \E k \in 0..MaxPrior : mock_data = PriorMockData(k)

\* An edit run on a project that had datasets has ended without an exception
\* and its operation was update.
C7_Witness ==
    \E r \in Runs :
        /\ SuccessfulEdit(r)
        /\ Operation(r) = "update"
        /\ Loaded(r) # EmptyDict

\* Run r is about to execute regenerate_affected_data with an operation for
\* which no regeneration is needed
AtSkip(r) ==
    /\ At(r, "regenerate_affected_data", "begin")
    /\ Operation(r) \notin schema_changing_ops

\* C8: when the regeneration predicate is false, the whole of
\* regenerate_affected_data is one return: no notification, no log entry, no
\* capability call (the run's history gets no entry), every field of the flow
\* state and the store as they were, no exception.
C8_SkipDoesNothing ==
    [][\A r \in Runs :
          (AtSkip(r) /\ run'[r] # run[r]) =>
              /\ run'[r].state = run[r].state
              /\ trace'[r] = trace[r]
              /\ UNCHANGED <<configs, mock_data, messages, ws, active_connections>>
              /\ run'[r].pc = "ret"
              /\ run'[r].exc = None]_vars

\* regenerate_affected_data has returned in a run whose operation is update.
C8_Witness ==
    \E r \in Runs :
        /\ At(r, "regenerate_affected_data", "ret")
        /\ Operation(r) = "update"
        /\ trace[r][Len(trace[r])] = Ev("step", "regenerate_affected_data")

\* The exceptions the run has raised, in order
Raised(r) == [i \in 1..Len(EventsOf(r, "raise")) |-> EventsOf(r, "raise")[i].arg]

\* What only the delivery to an observer raises: the set of send_message
\* changed under its iterator, or the websocket was closed
DeliveryErrors == {"RuntimeError", "WebSocketDisconnect"}

\* C9: observers that subscribe, unsubscribe or disconnect while a run is
\* publishing do not change its outcome: a run that has ended without
\* completion was not brought off its course by an exception that the delivery
\* to an observer raised (its first exception is another one).
C9_ObserversNeverEndRun ==
    \A r \in Runs :
        run[r].status = "dead" => Raised(r)[1] \notin DeliveryErrors

\* C10: every run whose thread has ended without a completion event has
\* published at least one error notification, wherever it failed.
C10_ErrorBeforeDeath ==
    \A r \in Runs :
        (run[r].status = "dead" /\ \A i \in 1..Len(Sent(r)) : Sent(r)[i].type # "complete")
            => Errors(r) # <<>>

\* C11: whatever the model service answers (an API error, text that is no
\* JSON, JSON that lacks a field the step reads), the step gets a usable
\* result: no step raises on the result of a capability call.
C11_CapabilityNeverRaises ==
    \A r \in Runs : \A i \in 1..Len(trace[r]) - 1 :
        trace[r][i].ev = "cap" => trace[r][i + 1].ev # "raise"

\* The fields of the flow state each step assigns; no field is assigned by two
\* steps of one flow, and every field starts at its default.
Writes(step) ==
    CASE step = "analyze_intent"           -> {"app_name", "use_case_summary"}
      [] step = "generate_use_cases"       -> {"entities", "pages"}
      [] step = "generate_page_configs"    -> {"page_configs"}
      [] step = "generate_mock_data"       -> {"mock_data"}
      [] step = "detect_edit_type"         -> {"edit_target", "modification_details"}
      [] step = "load_current_state"       -> {"current_config", "mock_data"}
      [] step = "apply_patch"              -> {"updated_config"}
      [] step = "regenerate_affected_data" -> {"updated_data"}
      [] OTHER                             -> {}

DefaultState(r) ==
    AgentState(run[r].state.user_input, run[r].state.mode, run[r].state.project_id)

\* C12: when a step has raised, the flow state is the one the last completed
\* step left: the fields the failing step assigns still have their defaults.
C12_FailedStepLeavesState ==
    \A r \in Runs :
        StepRaised(r) =>
            \A f \in Writes(LastStep(r)) : run[r].state[f] = DefaultState(r)[f]

\* The types of the messages the k-th step of the run has handed to
\* send_message, in order (those of the sequencer's except clause after the
\* step included), and the labels they carry
SpanSends(r, k) ==
    LET evs == SelectSeq(SubSeq(trace[r], StepAt(r, k), StepEnd(r, k)), LAMBDA e : e.ev = "send")
    IN  [i \in 1..Len(evs) |-> evs[i].arg]

TypesOf(msgs) == [i \in 1..Len(msgs) |-> msgs[i].type]

Terminal(step) == step \in {"write_files", "save_updates"}

Skipped(r, k) ==
    /\ Visited(r)[k] = "regenerate_affected_data"
    /\ Operation(r) \notin schema_changing_ops

\* The k-th step of the run has returned
Completed(r, k) == k < Len(Visited(r)) \/ run[r].status = "done"

\* The k-th step of the run has returned or raised
Ended(r, k) == Completed(r, k) \/ run[r].status = "dead"

Count(seq, x) == Cardinality({i \in 1..Len(seq) : seq[i] = x})

\* C13 as stated: for every step that has ended (a skipped regeneration
\* excepted, the terminal steps included) a status event came first, and then
\* either a state / complete event or an error event, never both.
C13_StatusThenOneOutcome ==
    \A r \in Runs : \A k \in 1..Len(Visited(r)) :
        (Ended(r, k) /\ ~Skipped(r, k)) =>
            LET T == TypesOf(SpanSends(r, k))
                success == Count(T, "state") + Count(T, "complete")
            IN  /\ T # <<>>
                /\ T[1] = "status"
                /\ (success = 1 /\ Count(T, "error") = 0) \/ (success = 0 /\ Count(T, "error") >= 1)

\* C13, amended: a step other than the terminal ones (and other than a skipped
\* regeneration, which publishes nothing) publishes one status event, first,
\* labelled with the step, then at most one state event, then error events
\* only if it fails (at most two, the sequencer's included), so a state event
\* and an error event both appear when the step fails after its state event;
\* a step that returned published exactly status, state.  The terminal steps
\* write_files and save_updates publish no status event: at most one complete
\* event, then error events only if they fail; exactly one complete event
\* when they returned.
C13_EventsPerStep ==
    \A r \in Runs : \A k \in 1..Len(Visited(r)) :
        LET step == Visited(r)[k]
            M == SpanSends(r, k)
            T == TypesOf(M)
        IN  IF Skipped(r, k) THEN T = <<>>
            ELSE /\ \A i \in DOMAIN T : T[i] \in {"status", "state", "complete", "error"}
                 /\ \A i \in DOMAIN T : \A j \in DOMAIN T :
                        (T[i] = "error" /\ T[j] # "error") => j < i
                 /\ Count(T, "error") <= 2
                 /\ Completed(r, k) => Count(T, "error") = 0
                 /\ IF Terminal(step)
                    THEN /\ Count(T, "status") = 0 /\ Count(T, "state") = 0
                         /\ Count(T, "complete") <= 1
                         /\ Completed(r, k) => T = <<"complete">>
                    ELSE /\ Count(T, "complete") = 0
                         /\ T # <<>> => T[1] = "status" /\ M[1].step = LabelOf(step)
                         /\ Count(T, "status") <= 1 /\ Count(T, "state") <= 1
                         /\ \A i \in DOMAIN T : T[i] = "state" => M[i].step = LabelOf(step)
                         /\ Completed(r, k) => T = <<"status", "state">>

\* A run has ended in a step that published its status and its state event and
\* then failed, after a step that returned.
C13_Witness ==
    \E r \in Runs :
        /\ run[r].status = "dead"
        /\ Len(Visited(r)) >= 2
        /\ TypesOf(SpanSends(r, Len(Visited(r)) - 1)) = <<"status", "state">>
        /\ TypesOf(SpanSends(r, Len(Visited(r)))) = <<"status", "state", "error", "error">>

\* The log entries the k-th step of the run has appended (the names they
\* carry), in order
LogsIn(r, k) ==
    LET evs == SelectSeq(SubSeq(trace[r], StepAt(r, k), StepEnd(r, k)),
                         LAMBDA e : e.ev = "db" /\ e.arg[1] = "save_message")
    IN  [i \in 1..Len(evs) |-> evs[i].arg[2]]

\* C14: every step that has returned, a skipped regeneration excepted, has
\* appended exactly one log entry, and the log holds it with the run's flow
\* identifier and the outcome "success".
C14_OneLogEntryPerStep ==
    \A r \in Runs : \A k \in 1..Len(Visited(r)) :
        (Completed(r, k) /\ ~Skipped(r, k)) =>
            /\ Len(LogsIn(r, k)) = 1
            /\ \E i \in 1..Len(messages) :
                  /\ messages[i].project_id = run[r].state.project_id
                  /\ messages[i].step = LogsIn(r, k)[1]
                  /\ messages[i].type = "success"

\* The send_message of run r ends in this step, by returning or by raising
PublishEnds(r) == run[r].pc = "send" /\ run'[r].pc # "send"

\* The observers the loop of send_message had not come to: they were in the
\* project's set when the publish began and still are
Waiting(r) == run[r].it.pending \cap LiveSet(run[r])

\* C15: a publish delivers the message to every observer subscribed to the
\* flow identifier at that moment: when send_message ends, no observer who
\* was in the set when it began, still is and still has its connection open
\* is left without the message.
C15_EverySubscriberReceives ==
    [][\A r \in Runs :
          PublishEnds(r) =>
              \A w \in Waiting(r) :
                  ws'[w].status = "open" =>
                      /\ ws'[w].inbox # <<>>
                      /\ ws'[w].inbox[Len(ws'[w].inbox)] = run[r].msg]_vars

\* Observer w gets a message in this step
Receives(w) == ws'[w].inbox # ws[w].inbox /\ ws'[w].inbox # <<>>

\* C16: an observer gets nothing on attachment, and afterwards only the
\* message a run is publishing for its flow identifier, and only if it was in
\* the identifier's set when that publish began: nothing published before it
\* subscribed is buffered or replayed.
C16_NoReplay ==
    [][\A w \in Observers :
          /\ (ws[w].status = "new" /\ ws'[w].status # "new") => ws'[w].inbox = <<>>
          /\ Receives(w) =>
                \E r \in Runs :
                    /\ run[r].pc = "send"
                    /\ ws[w].status = "open"
                    /\ ws[w].project_id = run[r].state.project_id
                    /\ w \in run[r].it.pending
                    /\ ws'[w].inbox = Append(ws[w].inbox, run[r].msg)]_vars

\* An observer who subscribed after the run had published its first status
\* event has got a later state event as its first message.
C16_Witness ==
    \E w \in Observers : \E r \in Runs :
        /\ ws[w].status = "open"
        /\ ws[w].inbox # <<>>
        /\ ws[w].inbox[1].type = "state"
        /\ Sent(r) # <<>>
        /\ Sent(r)[1].type = "status"
        /\ Len(ws[w].inbox) < Len(Sent(r))

(* Two edit runs on project p1, their threads interleaved in any way.  The
   one observer of the project has gone and its handler has not run yet: a
   send to it may raise or not. *)

GoneSocket == [status |-> "closed", project_id |-> "p1", inbox |-> <<>>]

InitEditRace ==
    /\ \E k \in 0..MaxPrior :
         /\ configs = PriorConfigs(k)
         /\ mock_data = PriorMockData(k)
    /\ messages = <<>>
    /\ active_connections = [p \in {"p1"} |-> [obj |-> "w1", members |-> {"w1"}]]
    /\ ws = [w \in Observers |-> IF w = "w1" THEN GoneSocket ELSE NewSocket]
    /\ run = [r \in Runs |-> IdleRun]
    /\ trace = [r \in Runs |-> <<>>]
    /\ http = <<>>
    /\ llm = "reliable"

EditRaceRequests(r) == {q \in Requests(r) : q.project_id = "p1" /\ q.mode = "edit"}

NextEditRace ==
    \/ \E r \in Runs : \E request \in EditRaceRequests(r) : run_agent(r, request)
    \/ \E r \in Runs : execute_flow_with_new_db(r)
    \/ \E r \in Runs : detect_edit_type(r)
    \/ \E r \in Runs : load_current_state(r)
    \/ \E r \in Runs : apply_patch(r)
    \/ \E r \in Runs : regenerate_affected_data(r)
    \/ \E r \in Runs : save_updates(r)
    \/ \E r \in Runs : send_json(r)

SpecEditRace == InitEditRace /\ [][NextEditRace]_vars

(* One run on project p1 and the query path for p1, interleaved in any way;
   the project's one observer has gone. *)

InitReader ==
    /\ \E k \in 0..MaxPrior :
         /\ configs = PriorConfigs(k)
         /\ mock_data = PriorMockData(k)
    /\ messages = <<>>
    /\ active_connections = [p \in {"p1"} |-> [obj |-> "w1", members |-> {"w1"}]]
    /\ ws = [w \in Observers |-> IF w = "w1" THEN GoneSocket ELSE NewSocket]
    /\ run = [r \in Runs |-> IF r = "r1" THEN IdleRun ELSE Querier]
    /\ trace = [r \in Runs |-> <<>>]
    /\ http = <<>>
    /\ llm = "reliable"

NextReader ==
    \/ \E request \in FanoutRequests : run_agent("r1", request)
    \/ Step("r1")
    \/ send_json("r1")
    \/ get_project("r2", "p1")

SpecReader == InitReader /\ [][NextReader]_vars

(* The conditional-regeneration predicate alone: two threads, each calling
   needs_data_regeneration on modification details of its own, again and
   again. *)

\* How many calls a thread makes
MaxEvals == 2

\* Modification details as detect_edit_intent may return them: each
\* schema-changing operation, other operations, an operation in another
\* spelling, a null operation, no operation at all
Operations ==
    {"add_field", "remove_field", "modify_field_type", "add_entity", "remove_entity",
     "update", "remove", "ADD_FIELD", "add_fields", None}

ModificationDetails ==
    {[operation |-> op, edit_target |-> "field"] : op \in Operations}
    \cup {[edit_target |-> "field"], EmptyDict}

Evaluator(modification_details) ==
    [IdleRun EXCEPT !.status = "evaluator",
                    !.state = [AgentState("none", "edit", "p1")
                                  EXCEPT !.modification_details = modification_details]]

Results(r) == [i \in 1..Len(EventsOf(r, "eval")) |-> EventsOf(r, "eval")[i].arg]

\* needs_data_regeneration(state.modification_details), called and returned
call_needs_data_regeneration(r) ==
    /\ run[r].status = "evaluator"
    /\ Len(Results(r)) < MaxEvals
    /\ Local(r, run[r],
             <<Ev("eval", needs_data_regeneration(run[r].state.modification_details))>>)

InitPredicate ==
    /\ configs = <<>>
    /\ mock_data = <<>>
    /\ messages = <<>>
    /\ active_connections = <<>>
    /\ ws = [w \in Observers |-> NewSocket]
    /\ run \in [Runs -> {Evaluator(d) : d \in ModificationDetails}]
    /\ trace = [r \in Runs |-> <<>>]
    /\ http = <<>>
    /\ llm = "reliable"

NextPredicate == \E r \in Runs : call_needs_data_regeneration(r)

SpecPredicate == InitPredicate /\ [][NextPredicate]_vars

(* The query path next to a thread that saves configurations of project p1,
   with the observers of the projects queried. *)

QueryIds == {"p1", "p2"}

InitQuery ==
    /\ \E k \in 0..MaxPrior :
         /\ configs = PriorConfigs(k)
         /\ mock_data = PriorMockData(k)
    /\ messages = <<>>
    /\ active_connections = <<>>
    /\ ws = [w \in Observers |-> NewSocket]
    /\ run = [r \in Runs |-> IF r = "r1" THEN Caller("p1") ELSE Querier]
    /\ trace = [r \in Runs |-> <<>>]
    /\ http = <<>>
    /\ llm = "reliable"

NextQuery ==
    \/ save_config("r1", ArtifactOf("r1"))
    \/ \E project_id \in QueryIds : get_project("r2", project_id)
    \/ \E s \in Subscriptions : connect(s[1], s[2])

SpecQuery == InitQuery /\ [][NextQuery]_vars

\* The versions a reader may ask for
ProbeVersions == 0..(MaxPrior + MaxSaves + 1)

\* The query thread r passes from pc to pc2
QueryStep(r, pc, pc2) ==
    /\ run[r].status = "query"
    /\ run[r].pc = pc
    /\ run'[r].pc = pc2

\* C17: get_max_version returns 0 for a flow identifier without a saved
\* configuration, and get_config returns the empty artifact for every
\* (flow identifier, version) that was never saved, version 0 included.
C17_AbsentReads ==
    [][/\ \A project_id \in QueryIds :
            /\ (\A k \in DOMAIN configs : k[1] # project_id)
                  => get_max_version(configs, project_id) = 0
            /\ \A version \in ProbeVersions :
                  <<project_id, version>> \notin DOMAIN configs
                      => get_config(configs, project_id, version) = EmptyDict
       /\ \A r \in Runs :
            /\ ( /\ QueryStep(r, "get_max_version", "get_config")
                 /\ \A k \in DOMAIN configs : k[1] # run[r].state.project_id )
                  => run'[r].version = 0
            /\ ( /\ QueryStep(r, "get_config", "get_all_mock_data")
                 /\ <<run[r].state.project_id, run[r].version>> \notin DOMAIN configs )
                  => run'[r].state.config = EmptyDict]_vars

\* A query for a project without configuration has read version 0 and then
\* the empty artifact, while the store holds configurations of another project.
C17_Witness ==
    /\ run["r2"].status = "query"
    /\ run["r2"].pc = "get_all_mock_data"
    /\ run["r2"].state.project_id = "p2"
    /\ run["r2"].version = 0
    /\ run["r2"].state.config = EmptyDict
    /\ <<"p2", 0>> \notin DOMAIN configs
    /\ configs # <<>>

\* The response of a query that has just returned one
Answered(r) ==
    /\ QueryStep(r, "get_all_mock_data", "idle")
    /\ "appConfig" \in DOMAIN run'[r].result_dict

\* The names of the datasets stored for a project
StoredNames(project_id) == {k[2] : k \in {x \in DOMAIN mock_data : x[1] = project_id}}

\* C20: the query path returns the configuration stored at the version it
\* read as the identifier's maximum together with all datasets stored for the
\* identifier, an empty configuration and no datasets for an identifier that
\* has none, and no step of it changes the store or the step log, or touches
\* the registry or an observer.
C20_QueryIsPureRead ==
    [][\A r \in Runs :
          /\ QueryStep(r, "get_max_version", "get_config") =>
                /\ run'[r].version \in {k[2] : k \in {x \in DOMAIN configs :
                                                        x[1] = run[r].state.project_id}} \cup {0}
                /\ \A k \in DOMAIN configs :
                       k[1] = run[r].state.project_id => k[2] =< run'[r].version
          /\ Answered(r) =>
                LET project_id == run[r].state.project_id
                    response == run'[r].result_dict
                IN  /\ response.project_id = project_id
                    /\ response.appConfig =
                          IF <<project_id, run[r].version>> \in DOMAIN configs
                          THEN configs[<<project_id, run[r].version>>]
                          ELSE EmptyDict
                    /\ DOMAIN response.mockData = StoredNames(project_id)
                    /\ \A n \in StoredNames(project_id) :
                           response.mockData[n] = mock_data[<<project_id, n>>]
                    /\ ( /\ \A k \in DOMAIN configs : k[1] # project_id
                         /\ StoredNames(project_id) = {} )
                          => response.appConfig = EmptyDict /\ response.mockData = EmptyDict
          /\ (run[r].status = "query" /\ run'[r] # run[r]) =>
                UNCHANGED <<configs, mock_data, messages, active_connections, ws>>]_vars

\* A query has returned the latest configuration and the datasets of a project
\* that has both, with an observer subscribed to the project who got nothing.
C20_Witness ==
    /\ run["r2"].status = "query"
    /\ run["r2"].pc = "idle"
    /\ "appConfig" \in DOMAIN run["r2"].result_dict
    /\ run["r2"].result_dict.project_id = "p1"
    /\ run["r2"].result_dict.appConfig # EmptyDict
    /\ run["r2"].result_dict.appConfig = configs[<<"p1", get_max_version(configs, "p1")>>]
    /\ run["r2"].result_dict.mockData # EmptyDict
    /\ ws["w1"].status = "open"
    /\ ws["w1"].inbox = <<>>

\* C18: a trigger whose flow-kind is neither create nor edit is rejected in
\* the handler: no thread is started (then or later), nothing is published
\* and the store is not written.
C18_InvalidModeRejected ==
    [][\A r \in Runs :
          /\ \A request \in Requests(r) :
                (request.mode \notin {"create", "edit"} /\ run_agent(r, request)) =>
                    /\ run'[r].status = "rejected"
                    /\ http'[Len(http')].status = "error"
                    /\ trace'[r] = <<>>
                    /\ UNCHANGED <<configs, mock_data, messages, active_connections, ws>>
          /\ run[r].status = "rejected" =>
                /\ run'[r] = run[r]
                /\ trace'[r] = <<>>
                /\ UNCHANGED <<configs, mock_data, messages>>
                /\ \A w \in Observers : ~Receives(w)
          /\ run'[r].status = "running" => run'[r].state.mode \in {"create", "edit"}]_vars

\* A trigger was rejected and an observer subscribed afterwards or before has
\* got nothing; the store is as it was.
C18_Witness ==
    /\ run["r1"].status = "rejected"
    /\ http # <<>>
    /\ http[1].status = "error"
    /\ ws["w1"].status = "open"
    /\ ws["w1"].inbox = <<>>
    /\ messages = <<>>

\* The flow identifier of a trigger
Expected(r, request) ==
    IF request.project_id \notin {None, ""} THEN request.project_id
    ELSE IF request.mode = "create" THEN uuid4(r)
    ELSE DEFAULT_PROJECT_ID

\* The keys of a table whose rows a step adds or changes
Touched(old, new) == {k \in DOMAIN new : k \notin DOMAIN old \/ new[k] # old[k]}

\* C19: a valid trigger is acknowledged before the run has done anything, and
\* the acknowledgment and its channel name carry the identifier the run uses
\* for every notification and store write: the caller's if one (non-empty)
\* was supplied, else a fresh one for create, else the fallback for edit.
C19_AckNamesTheRun ==
    [][\A r \in Runs :
          /\ \A request \in Requests(r) :
                (request.mode \in {"create", "edit"} /\ run_agent(r, request)) =>
                    /\ http' = Append(http, [status |-> "started",
                                             project_id |-> Expected(r, request),
                                             ws_channel |-> <<"agent-updates-",
                                                              Expected(r, request)>>])
                    /\ run'[r].state.project_id = Expected(r, request)
                    /\ run'[r].status = "running"
                    /\ run'[r].pc = "connect"
                    /\ trace'[r] = <<>>
          /\ run[r].status = "running" =>
                LET project_id == http[Len(http)].project_id IN
                /\ run[r].state.project_id = project_id
                /\ run'[r].state.project_id = project_id
                /\ \A k \in Touched(configs, configs') : k[1] = project_id
                /\ \A k \in Touched(mock_data, mock_data') : k[1] = project_id
                /\ Len(messages') > Len(messages)
                      => messages'[Len(messages')].project_id = project_id
                /\ \A w \in Observers : Receives(w) => ws[w].project_id = project_id]_vars

\* An edit trigger without identifier was acknowledged with the fallback
\* identifier, and its run has saved a configuration under it.
C19_Witness ==
    /\ run["r1"].status = "done"
    /\ run["r1"].state.mode = "edit"
    /\ http[1].project_id = DEFAULT_PROJECT_ID
    /\ http[1].ws_channel = <<"agent-updates-", DEFAULT_PROJECT_ID>>
    /\ \E k \in DOMAIN configs : k[1] = DEFAULT_PROJECT_ID
    /\ \E i \in 1..Len(messages) : messages[i].project_id = DEFAULT_PROJECT_ID

\* The run has published its completion event
HasCompleted(r) == \E i \in 1..Len(Sent(r)) : Sent(r)[i].type = "complete"

\* The store holds config as the latest version of the project
IsLatest(project_id, config) ==
    \E k \in DOMAIN configs :
        /\ k[1] = project_id
        /\ configs[k] = config
        /\ \A j \in DOMAIN configs : j[1] = project_id => j[2] =< k[2]

\* The store holds every dataset of md under its name
HoldsAll(project_id, md) ==
    \A n \in DOMAIN md :
        /\ <<project_id, n>> \in DOMAIN mock_data
        /\ mock_data[<<project_id, n>>] = md[n]

\* C21: once write_files of a run without concurrent run on its identifier has
\* published the completion event, the store holds the completed
\* configuration as the identifier's latest version and every dataset of the
\* event under its name, and the event carries exactly the configuration and
\* the datasets of the flow state.
C21_CompletionPersisted ==
    \A r \in Runs :
        (run[r].flow_type = "create" /\ HasCompleted(r)) =>
            /\ Completion(r).data.config = run[r].state.page_configs
            /\ Completion(r).data.mockData = run[r].state.mock_data
            /\ IsLatest(run[r].state.project_id, Completion(r).data.config)
            /\ HoldsAll(run[r].state.project_id, Completion(r).data.mockData)

\* write_files has just published the completion event of a create run on a
\* project that had a configuration before; the event carries datasets.
C21_Witness ==
    \E r \in Runs :
        /\ At(r, "write_files", "log")
        /\ HasCompleted(r)
        /\ Completion(r).data.mockData # EmptyDict
        /\ <<run[r].state.project_id, 2>> \in DOMAIN configs

\* The flow state holds updated datasets (`if state.updated_data:`)
UpdatedPresent(r) == run[r].state.updated_data \notin {NoneDict, EmptyDict}

\* C22: once save_updates has published its completion event, it has stored
\* the updated configuration as one new version, the maximum it read plus
\* one; if the flow state holds updated datasets (at least one), it has
\* written exactly these and the event carries them; otherwise it has written
\* no dataset, the stored datasets are the loaded ones, and the event carries
\* the loaded datasets.
C22_SaveUpdates ==
    \A r \in Runs :
        (run[r].flow_type = "edit" /\ HasCompleted(r)) =>
            LET st == run[r].state
                done == {DatasetWrites(r)[i].arg[2] : i \in 1..Len(DatasetWrites(r))}
            IN  /\ Len(Inserted(r)) = 1
                /\ Inserted(r)[1] = Last(ReadMax(r)) + 1
                /\ Written(r)[1] = st.updated_config
                /\ <<st.project_id, Inserted(r)[1]>> \in DOMAIN configs
                /\ configs[<<st.project_id, Inserted(r)[1]>>] = st.updated_config
                /\ IsLatest(st.project_id, st.updated_config)
                /\ Completion(r).data.config = st.updated_config
                /\ IF UpdatedPresent(r)
                   THEN /\ done = DOMAIN st.updated_data
                        /\ Len(DatasetWrites(r)) = Cardinality(done)
                        /\ HoldsAll(st.project_id, st.updated_data)
                        /\ Completion(r).data.mockData = st.updated_data
                   ELSE /\ done = {}
                        /\ StoredNames(st.project_id) = DOMAIN st.mock_data
                        /\ HoldsAll(st.project_id, st.mock_data)
                        /\ Completion(r).data.mockData = st.mock_data

\* An edit run has completed with updated datasets that differ from the
\* loaded ones, and has stored its configuration as version 2.
C22_Witness ==
    \E r \in Runs :
        /\ run[r].flow_type = "edit"
        /\ HasCompleted(r)
        /\ Inserted(r) = <<2>>
        /\ UpdatedPresent(r)
        /\ Completion(r).data.mockData # run[r].state.mock_data

\* An edit run has completed without updated datasets on a project that has
\* stored datasets; and one whose regeneration gave no dataset at all.
C22_WitnessPrior ==
    \E r \in Runs :
        /\ run[r].flow_type = "edit"
        /\ HasCompleted(r)
        /\ run[r].state.updated_data = NoneDict
        /\ Completion(r).data.mockData # EmptyDict

C22_WitnessEmpty ==
    \E r \in Runs :
        /\ run[r].flow_type = "edit"
        /\ HasCompleted(r)
        /\ run[r].state.updated_data = EmptyDict
        /\ Completion(r).data.mockData # EmptyDict

\* The fields of the flow state each step reads, the ones run_agent sets
\* (user_input, mode, project_id) apart
Reads(step) ==
    CASE step = "generate_use_cases"       -> {"use_case_summary"}
      [] step = "generate_page_configs"    -> {"entities", "pages"}
      [] step = "generate_mock_data"       -> {"entities"}
      [] step = "write_files"              -> {"page_configs", "mock_data"}
      [] step = "apply_patch"              -> {"current_config", "edit_target",
                                               "modification_details"}
      [] step = "regenerate_affected_data" -> {"modification_details", "updated_config",
                                               "mock_data"}
      [] step = "save_updates"             -> {"updated_config", "updated_data", "mock_data"}
      [] OTHER                             -> {}

\* The fields the steps before the k-th invocation have assigned
AssignedBefore(r, k) ==
    UNION {IF Skipped(r, j) THEN {} ELSE Writes(Visited(r)[j]) : j \in 1..(k - 1)}

\* The fields of the flow state a step of r changes
Changed(r) ==
    {f \in DOMAIN run[r].state :
        f \in DOMAIN run'[r].state /\ run'[r].state[f] # run[r].state[f]}

\* C23 as stated: at every step invocation every flow-state field the step
\* reads has been assigned by an earlier step of the run.
C23_ReadsPopulated ==
    \A r \in Runs : \A k \in 1..Len(Visited(r)) :
        Reads(Visited(r)[k]) \subseteq AssignedBefore(r, k)

\* What a step reads although no earlier step may have assigned it:
\* save_updates tests updated_data, which is still None after a regeneration
\* that was skipped.
Optional(r, k) ==
    IF /\ Visited(r)[k] = "save_updates"
       /\ \E j \in 1..(k - 1) : Skipped(r, j)
    THEN {"updated_data"}
    ELSE {}

\* C23: at every step invocation every flow-state field the step reads has
\* been assigned by an earlier step of the run, except updated_data in
\* save_updates after a skipped regeneration; and a field is assigned only
\* while the step that owns it in the successor-table order is executing.
C23_FieldsInStepOrder ==
    /\ [](\A r \in Runs : \A k \in 1..Len(Visited(r)) :
            (Reads(Visited(r)[k]) \ Optional(r, k)) \subseteq AssignedBefore(r, k))
    /\ [][\A r \in Runs :
            (run[r].status = "running" /\ run'[r].status # "idle") =>
                Changed(r) \subseteq Writes(run[r].current_step)]_vars

\* save_updates has been invoked after a regeneration that ran, and all it
\* reads has been assigned.
C23_Witness ==
    \E r \in Runs :
        /\ At(r, "save_updates", "begin")
        /\ Len(Visited(r)) = 5
        /\ ~Skipped(r, 4)
        /\ run[r].state.updated_data # NoneDict
        /\ Reads("save_updates") \subseteq AssignedBefore(r, 5)

\* The longest path of a successor table
MaxSteps == 5

\* C24: a run whose calls all return ends: it executes at most five steps,
\* and every running thread ends done, when the successor table gave no
\* further step, or dead, when a step raised (or the connection to the
\* store could not be made).
C24_RunTerminates ==
    /\ [](\A r \in Runs :
            /\ Len(Visited(r)) =< MaxSteps
            /\ run[r].status = "done" =>
                  get_next_step_func(run[r].flow_type, LastStep(r)) = None
            /\ run[r].status = "dead" => Raised(r) # <<>>)
    /\ \A r \in Runs :
          (run[r].status = "running") ~> (run[r].status \in {"done", "dead"})

\* A run has ended after five steps.
C24_Witness ==
    \E r \in Runs :
        /\ run[r].status = "done"
        /\ Len(Visited(r)) = MaxSteps

\* The log entries of a project, in the order they were written
LogOf(msgs, project_id) == SelectSeq(msgs, LAMBDA m : m.project_id = project_id)

\* C25: the step log is append-only: every step of the system leaves each
\* existing entry where and as it is, and the entries of every flow
\* identifier grow only at the end, one at a time.
C25_LogAppendOnly ==
    [][/\ IsPrefix(messages, messages')
       /\ Len(messages') =< Len(messages) + 1
       /\ \A project_id \in {messages[i].project_id : i \in 1..Len(messages)} :
              IsPrefix(LogOf(messages, project_id), LogOf(messages', project_id))]_vars

\* A run has appended its fifth entry to the four that are still there.
C25_Witness ==
    /\ Len(messages) = 5
    /\ messages[4].step = "generate_mock_data"
    /\ messages[5].step = "write_files"

\* Thread r makes a call of save_mock_data in this step
SavesDataset(r) == Len(DatasetWrites(r)') = Len(DatasetWrites(r)) + 1

\* The datasets the terminal step of r is saving
Saving(r) ==
    IF run[r].current_step = "write_files" THEN run[r].state.mock_data
    ELSE run[r].state.updated_data

\* C26: a call save_mock_data(project_id, resource, data) leaves exactly
\* `data` as the stored records of (project_id, resource), whether or not a
\* dataset was stored there, and leaves every other dataset, every
\* configuration version and the step log as they were.
C26_SaveDatasetReplaces ==
    [][\A r \in Runs :
          SavesDataset(r) =>
              LET resource == Last(DatasetWrites(r)').arg[2]
                  key == <<run[r].state.project_id, resource>>
              IN  /\ DOMAIN mock_data' = DOMAIN mock_data \cup {key}
                  /\ mock_data'[key] = Saving(r)[resource]
                  /\ \A k \in DOMAIN mock_data : k # key => mock_data'[k] = mock_data[k]
                  /\ UNCHANGED <<configs, messages>>]_vars

\* A dataset that was stored with other records has been overwritten, while
\* another dataset of the project still holds its earlier records.
C26_Witness ==
    \E r \in Runs :
        /\ DatasetWrites(r) # <<>>
        /\ mock_data # <<>>
        /\ \E k \in 1..MaxPrior : \E x \in DOMAIN PriorMockData(k) :
              /\ x[1] = run[r].state.project_id
              /\ x[2] = Last(DatasetWrites(r)).arg[2]
              /\ x \in DOMAIN mock_data
              /\ mock_data[x] # PriorMockData(k)[x]
              /\ \E y \in DOMAIN PriorMockData(k) \cap DOMAIN mock_data :
                    y # x /\ mock_data[y] = PriorMockData(k)[y]

\* The operation named by the modification details of thread r, if any
Named(r) ==
    IF "operation" \in DOMAIN run[r].state.modification_details
    THEN run[r].state.modification_details.operation
    ELSE None

Tag(e) ==
    CASE e.ev = "send" -> e.arg.type
      [] e.ev = "db"   -> IF e.arg[1] = "save_message" THEN "log" ELSE "store"
      [] OTHER         -> e.ev

\* The events of the k-th step of r, the invocation itself apart
Shape(r, k) ==
    [i \in 1..(StepEnd(r, k) - StepAt(r, k)) |-> Tag(trace[r][StepAt(r, k) + i])]

UniformShape == <<"status", "cap", "mutate", "state", "log">>

\* C28: every non-terminal step that has returned (a skipped regeneration
\* apart) has, in this order, published its status notification, invoked the
\* generation capability, mutated the flow state, published the state
\* notification and appended the log entry.
C28_UniformShape ==
    \A r \in Runs : \A k \in 1..Len(Visited(r)) :
        (Completed(r, k) /\ ~Terminal(Visited(r)[k]) /\ ~Skipped(r, k)) =>
            SelectSeq(Shape(r, k), LAMBDA t : t # "store") = UniformShape

\* The version load_current_state of r asked get_config for
LoadedVersion(r) ==
    SelectSeq(EventsOf(r, "db"), LAMBDA e : e.arg[1] = "get_config")[1].arg[2]

\* The configuration stored as the latest version of a project
Latest(project_id) ==
    configs[CHOOSE k \in DOMAIN configs :
                /\ k[1] = project_id
                /\ \A j \in DOMAIN configs : j[1] = project_id => j[2] =< k[2]]

\* Both edit runs have completed on one project, having loaded the same version
BothLoaded(r, b, k) ==
    /\ r # b
    /\ SuccessfulEdit(r) /\ SuccessfulEdit(b)
    /\ run[r].state.project_id = run[b].state.project_id
    /\ LoadedVersion(r) = k /\ LoadedVersion(b) = k

\* C29: when two edit runs on one flow identifier have both loaded version k
\* (neither had saved when the other loaded) and both have saved, the latest
\* configuration is the patch of one of them applied to version k: it holds
\* that run's edit and not the other's, whose edit is in no later version.
C29_LostUpdate ==
    \A r, b \in Runs : \A k \in 0..MaxPrior :
        BothLoaded(r, b, k) =>
            LET project_id == run[r].state.project_id
                base == IF k = 0 THEN EmptyDict ELSE PriorConfigs(k)[<<project_id, k>>]
                edit(x) == run[x].state.modification_details.modification_details
            IN  /\ run[r].state.current_config = base
                /\ run[b].state.current_config = base
                /\ edit(r) # edit(b)
                /\ \E winner \in {r, b} :
                      /\ Latest(project_id) = run[winner].state.updated_config
                      /\ Latest(project_id) = [base |-> base, edit |-> edit(winner)]

\* Both runs have loaded version 1 and saved: the latest version holds the
\* edit of r2 on version 1, and the edit of r1 is in an earlier version only.
C29_Witness ==
    /\ BothLoaded("r1", "r2", 1)
    /\ Latest("p1") = run["r2"].state.updated_config
    /\ Latest("p1").base = PriorConfigs(1)[<<"p1", 1>>]
    /\ Latest("p1") # run["r1"].state.updated_config
    /\ \E v \in 2..3 : <<"p1", v>> \in DOMAIN configs
                         /\ configs[<<"p1", v>>] = run["r1"].state.updated_config

\* Run r is in its terminal step, past the INSERT of save_config and before
\* its last dataset save
MidWrite(r) ==
    /\ run[r].status = "running"
    /\ Terminal(run[r].current_step)
    /\ run[r].pc = "save_mock_data"

\* Query thread q has returned the configuration run r has just stored
ReadNewConfig(q, r) ==
    /\ run[q].status = "query"
    /\ run[q].pc = "idle"
    /\ "appConfig" \in DOMAIN run[q].result_dict
    /\ run[q].result_dict.project_id = run[r].state.project_id
    /\ run[q].result_dict.appConfig = Written(r)[1]

\* C30: a query that has returned while a run on its flow identifier is
\* between the save of its configuration and its last dataset save, and that
\* has read the new configuration, has returned with it datasets that are not
\* the run's: one of the run's datasets is missing from the answer or is in
\* it with the records stored before.
C30_TornRead ==
    \A q, r \in Runs :
        (q # r /\ MidWrite(r) /\ ReadNewConfig(q, r)) =>
            /\ run[q].result_dict.mockData # Saving(r)
            /\ \E n \in DOMAIN Saving(r) :
                  \/ n \notin DOMAIN run[q].result_dict.mockData
                  \/ run[q].result_dict.mockData[n] # Saving(r)[n]

\* A query has returned the new configuration of a run with one of the run's
\* datasets and, for another, nothing (a partial answer).
C30_Witness ==
    /\ MidWrite("r1")
    /\ ReadNewConfig("r2", "r1")
    /\ \E n, x \in DOMAIN Saving("r1") :
          /\ n \in DOMAIN run["r2"].result_dict.mockData
          /\ run["r2"].result_dict.mockData[n] = Saving("r1")[n]
          /\ x \notin DOMAIN run["r2"].result_dict.mockData

\* The same with the records stored before the run (an old answer), in
\* write_files.
C30_WitnessOld ==
    /\ MidWrite("r1")
    /\ ReadNewConfig("r2", "r1")
    /\ run["r1"].current_step = "write_files"
    /\ DOMAIN run["r2"].result_dict.mockData = {"Task", "Note"}
    /\ \A n \in {"Task", "Note"} :
          run["r2"].result_dict.mockData[n] = PriorMockData(1)[<<"p1", n>>]

-----------------------------------------------------------------------------
(* A terminal step that fails between save_config and send_complete *)

\* Where in the history the run made its INSERT into configs
InsertAt(r) ==
    CHOOSE i \in 1..Len(trace[r]) : trace[r][i].ev = "db" /\ trace[r][i].arg[1] = "insert_config"

\* The terminal step of the run has made its INSERT into configs and then
\* raised in the loop over the datasets: between the INSERT and the exception
\* the history holds dataset saves only.
DatasetSaveFailed(r) ==
    /\ Len(Visited(r)) >= 1
    /\ Terminal(LastStep(r))
    /\ Inserted(r) # <<>>
    /\ \E j \in InsertAt(r) + 1..Len(trace[r]) :
          /\ trace[r][j] = Ev("raise", "sqlite3.Error")
          /\ \A k \in InsertAt(r) + 1..j - 1 :
                trace[r][k].ev = "db" /\ trace[r][k].arg[1] = "save_mock_data"

\* The observer holds an error notification of the step
GotError(w, step) ==
    \E i \in 1..Len(ws[w].inbox) :
        ws[w].inbox[i].type = "error" /\ ws[w].inbox[i].step = step

GotCompletion(w) ==
    \E i \in 1..Len(ws[w].inbox) : ws[w].inbox[i].type = "complete"

\* C31: when write_files or save_updates fails in a dataset save after its
\* save_config succeeded, the inserted version stays in the store as the
\* project's latest configuration, the run publishes no completion event (so
\* no completion event announces that configuration and no observer holds
\* one), and once the run has ended it has published an error notification of
\* the step, which every observer subscribed throughout holds.
C31_NoRollback ==
    \A r \in Runs :
        DatasetSaveFailed(r) =>
            /\ <<run[r].state.project_id, Last(Inserted(r))>> \in DOMAIN configs
            /\ configs[<<run[r].state.project_id, Last(Inserted(r))>>] = Last(Written(r))
            /\ get_max_version(configs, run[r].state.project_id) = Last(Inserted(r))
            /\ ~HasCompleted(r)
            /\ \A w \in Observers : ~GotCompletion(w)
            /\ run[r].status = "dead" =>
                  /\ \E i \in 1..Len(Sent(r)) :
                        Sent(r)[i].type = "error" /\ Sent(r)[i].step = LastStep(r)
                  /\ \A w \in Observers :
                        SubscribedThroughout(w, r) => GotError(w, LastStep(r))

\* An edit run on a project with a prior version has ended in save_updates
\* after its INSERT, and the observer subscribed throughout holds the error
C31_Witness ==
    /\ DatasetSaveFailed("r1")
    /\ run["r1"].status = "dead"
    /\ LastStep("r1") = "save_updates"
    /\ Last(Inserted("r1")) = 2
    /\ SubscribedThroughout("w1", "r1")
    /\ GotError("w1", "save_updates")

\* A create run has ended in write_files after its INSERT
C31_WitnessCreate ==
    /\ DatasetSaveFailed("r1")
    /\ run["r1"].status = "dead"
    /\ LastStep("r1") = "write_files"
    /\ <<run["r1"].state.project_id, 1>> \in DOMAIN configs

-----------------------------------------------------------------------------
(* Datasets an edit run leaves out *)

\* The names the run loaded and its updated datasets do not hold
Omitted(r) == DOMAIN run[r].state.mock_data \ DOMAIN run[r].state.updated_data

\* C32: no step takes a dataset out of the store; after a successful edit run
\* with updated datasets the stored names are the loaded names together with
\* the updated ones, each omitted dataset is stored with the records it had,
\* and a query that returns then answers with the datasets of exactly these
\* names (the omitted ones as they were), whatever the completion event of
\* the run carried.
C32_NoDatasetDeleted ==
    [][/\ DOMAIN mock_data \subseteq DOMAIN mock_data'
       /\ \A r, q \in Runs :
            (SuccessfulEdit(r) /\ UpdatedPresent(r)) =>
                LET st == run[r].state IN
                /\ StoredNames(st.project_id)' = DOMAIN st.mock_data \cup DOMAIN st.updated_data
                /\ \A n \in Omitted(r) : mock_data'[<<st.project_id, n>>] = st.mock_data[n]
                /\ (Answered(q) /\ run[q].state.project_id = st.project_id) =>
                      /\ DOMAIN run'[q].result_dict.mockData =
                            DOMAIN st.mock_data \cup DOMAIN st.updated_data
                      /\ \A n \in Omitted(r) :
                            run'[q].result_dict.mockData[n] = st.mock_data[n]]_vars

\* An edit run has completed with datasets Task and Extra on a project that
\* had Task and Note; Note is still stored, and a query has returned the
\* three of them while the completion event carried two.
C32_Witness ==
    /\ SuccessfulEdit("r1")
    /\ UpdatedPresent("r1")
    /\ Omitted("r1") = {"Note"}
    /\ <<"p1", "Note">> \in DOMAIN mock_data
    /\ DOMAIN Completion("r1").data.mockData = {"Task", "Extra"}
    /\ run["r2"].pc = "idle"
    /\ "mockData" \in DOMAIN run["r2"].result_dict
    /\ DOMAIN run["r2"].result_dict.mockData = {"Task", "Note", "Extra"}
    /\ DOMAIN run["r2"].result_dict.mockData # DOMAIN Completion("r1").data.mockData

-----------------------------------------------------------------------------
(* The completion event and what follows it *)

\* The step the run was in at position i of its history
StepOf(r, i) ==
    LET before == {j \in 1..i : trace[r][j].ev = "step"}
    IN  trace[r][CHOOSE j \in before : \A k \in before : k =< j].arg

\* C33: a run publishes at most one completion event, from its terminal step
\* only, and publishes nothing after it: no status, state or error
\* notification and no second completion event.
C33_CompletionIsLast ==
    \A r \in Runs : \A i \in 1..Len(trace[r]) :
        (trace[r][i].ev = "send" /\ trace[r][i].arg.type = "complete") =>
            /\ Terminal(StepOf(r, i))
            /\ \A j \in i + 1..Len(trace[r]) : trace[r][j].ev # "send"

-----------------------------------------------------------------------------
(* The registry of observers *)

\* The observers that have subscribed to the project and whose handler has
\* not called disconnect since
Subscribed(project_id) ==
    {w \in Observers : ws[w].status \in {"open", "closed"} /\ ws[w].project_id = project_id}

\* Observer w subscribes to (unsubscribes from) its project in this step
Subscribes(w) == ws[w].status = "new" /\ ws'[w].status = "open"

Unsubscribes(w) == ws[w].status = "closed" /\ ws'[w].status = "gone"

\* C34: the registry holds a flow identifier exactly when an observer has
\* subscribed to it and not unsubscribed since, and maps it to the set of
\* these observers, never to an empty set; a subscribe adds the observer to
\* the set of its identifier, an unsubscribe takes it out and removes the
\* entry with the last one, and no other step changes the registry.
C34_RegistryExact ==
    /\ [](/\ DOMAIN active_connections = {p \in RegistryIds : Subscribed(p) # {}}
          /\ \A p \in DOMAIN active_connections :
                /\ active_connections[p].members = Subscribed(p)
                /\ active_connections[p].members # {})
    /\ [][/\ \A w \in Observers :
               /\ Subscribes(w) =>
                     active_connections'[ws'[w].project_id].members =
                        (IF ws'[w].project_id \in DOMAIN active_connections
                         THEN active_connections[ws'[w].project_id].members ELSE {}) \cup {w}
               /\ Unsubscribes(w) =>
                     IF active_connections[ws[w].project_id].members = {w}
                     THEN ws[w].project_id \notin DOMAIN active_connections'
                     ELSE active_connections'[ws[w].project_id].members =
                             active_connections[ws[w].project_id].members \ {w}
          /\ (\A w \in Observers : ~Subscribes(w) /\ ~Unsubscribes(w)) =>
                active_connections' = active_connections]_vars

\* Both observers of p1 have unsubscribed, the second one last, and the
\* registry has no entry left
C34_Witness ==
    /\ \A w \in Observers : ws[w].status = "gone" /\ ws[w].project_id = "p1"
    /\ active_connections = <<>>

\* One of two observers of p1 has unsubscribed and the entry holds the other
C34_WitnessOneLeft ==
    /\ ws["w1"].status = "gone" /\ ws["w1"].project_id = "p1"
    /\ ws["w2"].status = "open" /\ ws["w2"].project_id = "p1"
    /\ active_connections["p1"].members = {"w2"}

\* One observer on each project, the one of p1 has unsubscribed
C34_WitnessTwoIds ==
    /\ ws["w1"].status = "gone" /\ ws["w1"].project_id = "p1"
    /\ ws["w2"].status = "closed" /\ ws["w2"].project_id = "p2"
    /\ DOMAIN active_connections = {"p2"}

=============================================================================
